---- MODULE Spec2Model ----
(***************************************************************************)
(* A model of the ATS resume scoring engine                                *)
(* (src/src/agents/ats_scorer.py), of the weight validation of             *)
(* src/src/utils/config.py and of the weight sliders of                    *)
(* src/streamlit_app/app.py, of the skill taxonomy of                      *)
(* src/src/rag/knowledge_base.py and of the recommendation log of          *)
(* src/src/agents/improvement_agent.py.                                    *)
(*                                                                         *)
(* Python values are tagged records: a str, a list (a sequence), a dict (a *)
(* sequence of <<key, value>> pairs in insertion order) or None.  Floats   *)
(* are exact rationals [n, d]; a score rounded to two decimals is an       *)
(* integer number of hundredths.  TLC evaluates Len, SubSeq and \o on      *)
(* strings, so string operations are computed character by character.      *)
(***************************************************************************)
EXTENDS Integers, Sequences, FiniteSets, TLC

VARIABLES
    year,               \* datetime.now().year, the wall clock
    weights,            \* ATSScoringAgent.weights
    consistency_cache,  \* ATSScoringAgent.consistency_cache: fingerprint -> ScoreResult
    scoring_history,    \* ATSScoringAgent.scoring_history
    scoring_config,     \* ConfigManager.scoring_config
    scorer_runs,        \* how often the five category scorers ran, per fingerprint, on this engine
    ncalls,             \* score_resume calls made so far
    last,               \* the latest finished score_resume call: arguments and returned result
    prev,               \* an earlier finished call, kept for comparison with later ones
    threads,            \* the score_resume calls in progress, one per thread
    inp,                \* arguments handed to the scorers taken alone
    out,                \* what the scorers taken alone returned for inp
    recommendation_history  \* ImprovementRecommendationAgent.recommendation_history

vars == <<year, weights, consistency_cache, scoring_history, scoring_config,
          scorer_runs, ncalls, last, prev, threads, inp, out, recommendation_history>>

-----------------------------------------------------------------------------
(* Python values *)

Str(s)   == [t |-> "str", v |-> s]
List(q)  == [t |-> "list", v |-> q]
Dict(p)  == [t |-> "dict", v |-> p]
None     == [t |-> "none", v |-> <<>>]

IsStr(x)  == x.t = "str"
IsList(x) == x.t = "list"
IsDict(x) == x.t = "dict"
IsNone(x) == x.t = "none"

\* bool(x): None, "", [] and {} are falsy
Truthy(x) ==
    CASE IsNone(x) -> FALSE
      [] IsStr(x)  -> x.v # ""
      [] OTHER     -> x.v # <<>>

HasKey(d, k) == \E i \in 1..Len(d.v) : d.v[i][1] = k

\* d.get(k, default)
Get(d, k, default) ==
    IF HasKey(d, k) THEN d.v[CHOOSE i \in 1..Len(d.v) : d.v[i][1] = k][2] ELSE default

\* list(d.values()), in insertion order
Values(d) == [i \in 1..Len(d.v) |-> d.v[i][2]]

\* the items of a list value, none for any other value
Items(x) == IF IsList(x) THEN x.v ELSE <<>>

EmptyDict == Dict(<<>>)
EmptyList == List(<<>>)
EmptyStr  == Str("")

-----------------------------------------------------------------------------
(* Strings *)

UpperChars == "ABCDEFGHIJKLMNOPQRSTUVWXYZ"
LowerChars == "abcdefghijklmnopqrstuvwxyz"
DigitChars == "0123456789"

CharAt(s, i) == SubSeq(s, i, i)

\* the position of character c in string s, 0 when absent
IndexIn(c, s) ==
    IF \E i \in 1..Len(s) : CharAt(s, i) = c
    THEN CHOOSE i \in 1..Len(s) : CharAt(s, i) = c
    ELSE 0

LowerChar(c) ==
    LET i == IndexIn(c, UpperChars) IN IF i = 0 THEN c ELSE CharAt(LowerChars, i)

RECURSIVE Lower(_)
\* str.lower()
Lower(s) ==
    IF Len(s) <= 1 THEN LowerChar(s)
    ELSE LET h == Len(s) \div 2 IN Lower(SubSeq(s, 1, h)) \o Lower(SubSeq(s, h + 1, Len(s)))

\* sub in s
Contains(sub, s) ==
    \E i \in 1..(Len(s) - Len(sub) + 1) : SubSeq(s, i, i + Len(sub) - 1) = sub

\* any(char.isdigit() for char in s)
HasDigit(s) == \E i \in 1..Len(s) : IndexIn(CharAt(s, i), DigitChars) # 0

RECURSIVE Split(_, _)
\* s.split(sep) for a one-character separator
Split(s, sep) ==
    LET i == IndexIn(sep, s)
    IN  IF i = 0 THEN <<s>>
        ELSE <<SubSeq(s, 1, i - 1)>> \o Split(SubSeq(s, i + 1, Len(s)), sep)

IsDigits(s) == s # "" /\ \A i \in 1..Len(s) : IndexIn(CharAt(s, i), DigitChars) # 0

RECURSIVE DigitsValue(_)
DigitsValue(s) ==
    IF s = "" THEN 0
    ELSE 10 * DigitsValue(SubSeq(s, 1, Len(s) - 1)) + (IndexIn(CharAt(s, Len(s)), DigitChars) - 1)

\* int(s): [ok |-> TRUE, v |-> value], or ok = FALSE where Python raises ValueError
ParseInt(s) ==
    IF IsDigits(s) THEN [ok |-> TRUE, v |-> DigitsValue(s)] ELSE [ok |-> FALSE, v |-> 0]

RECURSIVE JoinWith(_, _)
\* sep.join(parts)
JoinWith(parts, sep) ==
    IF parts = <<>> THEN ""
    ELSE IF Len(parts) = 1 THEN parts[1]
    ELSE parts[1] \o sep \o JoinWith(Tail(parts), sep)

\* the order of Python's str comparison (by code point), on the characters used here
CodeOrder == " %+-./0123456789:@ABCDEFGHIJKLMNOPQRSTUVWXYZ_abcdefghijklmnopqrstuvwxyz"

RECURSIVE StrLess(_, _)
StrLess(a, b) ==
    IF b = "" THEN FALSE
    ELSE IF a = "" THEN TRUE
    ELSE LET x == IndexIn(CharAt(a, 1), CodeOrder)
             y == IndexIn(CharAt(b, 1), CodeOrder)
         IN  IF x # y THEN x < y
             ELSE StrLess(SubSeq(a, 2, Len(a)), SubSeq(b, 2, Len(b)))

-----------------------------------------------------------------------------
(* Rationals, for Python's floats *)

Abs(x) == IF x < 0 THEN -x ELSE x

RECURSIVE GCD(_, _)
GCD(a, b) == IF b = 0 THEN a ELSE GCD(b, a % b)

\* n/d in lowest terms, d > 0
Q(n, d) == LET g == GCD(Abs(n), d) IN [n |-> n \div g, d |-> d \div g]
QInt(k) == [n |-> k, d |-> 1]
QAdd(a, b) ==
    LET g == GCD(a.d, b.d) IN Q(a.n * (b.d \div g) + b.n * (a.d \div g), (a.d \div g) * b.d)
QSub(a, b) == QAdd(a, [n |-> -b.n, d |-> b.d])
QMul(a, b) ==
    LET g1 == GCD(Abs(a.n), b.d)
        g2 == GCD(Abs(b.n), a.d)
        h1 == IF g1 = 0 THEN 1 ELSE g1
        h2 == IF g2 = 0 THEN 1 ELSE g2
    IN  Q((a.n \div h1) * (b.n \div h2), (a.d \div h2) * (b.d \div h1))
\* a / b for b > 0
QDiv(a, b) == QMul(a, [n |-> b.d, d |-> b.n])
QLe(a, b) == a.n * b.d <= b.n * a.d
QLt(a, b) == a.n * b.d < b.n * a.d
QMin(a, b) == IF QLe(a, b) THEN a ELSE b
QMax(a, b) == IF QLe(a, b) THEN b ELSE a

RECURSIVE QSum(_)
QSum(qs) == IF qs = <<>> THEN QInt(0) ELSE QAdd(qs[1], QSum(Tail(qs)))

\* round(x, 2) as a number of hundredths: the nearest one, a tie going to the even one
Round2(q) ==
    LET m   == 100 * q.n
        fl  == m \div q.d
        rem == m - fl * q.d
    IN  IF 2 * rem < q.d THEN fl
        ELSE IF 2 * rem > q.d THEN fl + 1
        ELSE IF fl % 2 = 0 THEN fl ELSE fl + 1

-----------------------------------------------------------------------------
(* Sequences *)

RECURSIVE Concat(_)
\* the concatenation of a sequence of sequences
Concat(qs) == IF qs = <<>> THEN <<>> ELSE qs[1] \o Concat(Tail(qs))

\* sum(1 for ... if ...): the number of TRUE entries of a sequence of booleans
Count(flags) == Cardinality({i \in 1..Len(flags) : flags[i]})

\* any(char.isdigit() for char in ach), for each ach of a list of strings
Quantified(achievements) == [i \in 1..Len(achievements) |-> HasDigit(achievements[i].v)]

-----------------------------------------------------------------------------
(* str(), int() and float() *)

RECURSIVE Repr(_)
\* repr(x): a str in quotes, a list in brackets, a dict in braces
Repr(x) ==
    CASE IsNone(x) -> "None"
      [] IsStr(x)  -> "'" \o x.v \o "'"
      [] IsList(x) -> "[" \o JoinWith([i \in 1..Len(x.v) |-> Repr(x.v[i])], ", ") \o "]"
      [] IsDict(x) ->
            "{" \o JoinWith([i \in 1..Len(x.v) |->
                                "'" \o x.v[i][1] \o "': " \o Repr(x.v[i][2])], ", ") \o "}"

\* str(x)
PyStr(x) == IF IsStr(x) THEN x.v ELSE Repr(x)

RECURSIVE Strip(_)
\* s.strip() of spaces
Strip(s) ==
    IF s = "" THEN ""
    ELSE IF CharAt(s, 1) = " " THEN Strip(SubSeq(s, 2, Len(s)))
    ELSE IF CharAt(s, Len(s)) = " " THEN Strip(SubSeq(s, 1, Len(s) - 1))
    ELSE s

Negated(p) == [ok |-> p.ok, v |-> -p.v]

\* int(u) of a stripped string: one optional sign, then digits
SignedInt(u) ==
    IF u # "" /\ CharAt(u, 1) = "-" THEN Negated(ParseInt(SubSeq(u, 2, Len(u))))
    ELSE IF u # "" /\ CharAt(u, 1) = "+" THEN ParseInt(SubSeq(u, 2, Len(u)))
    ELSE ParseInt(u)

\* int(s) with Python's leniency for surrounding spaces and a sign
PyInt(s) == SignedInt(Strip(s))

RECURSIVE Pow10(_)
Pow10(k) == IF k = 0 THEN 1 ELSE 10 * Pow10(k - 1)

\* the float with integer digits ip and fraction digits fp
Decimal(ip, fp) ==
    IF /\ ip \o fp # ""
       /\ ip = "" \/ IsDigits(ip)
       /\ fp = "" \/ IsDigits(fp)
    THEN [ok |-> TRUE,
          v  |-> Q(DigitsValue(ip) * Pow10(Len(fp)) + DigitsValue(fp), Pow10(Len(fp)))]
    ELSE [ok |-> FALSE, v |-> QInt(0)]

\* float of the parts of a literal around its decimal point
DecimalParts(parts) ==
    IF Len(parts) = 1 THEN Decimal(parts[1], "")
    ELSE IF Len(parts) = 2 THEN Decimal(parts[1], parts[2])
    ELSE [ok |-> FALSE, v |-> QInt(0)]

\* float(s) for decimal literals "12", "3.8", ".5", "3."; ok = FALSE where Python raises
\* ValueError (exponents, "nan" and "inf" are outside the strings used here)
PyFloat(s) == DecimalParts(Split(Strip(s), "."))

-----------------------------------------------------------------------------
(* The category scorers *)

\* [skill.lower() for skill in skill_category] over the list-valued skill categories
AllResumeSkills(resume_data) ==
    LET cats == Values(Get(resume_data, "skills", EmptyDict))
    IN  Concat([i \in 1..Len(cats) |->
                  IF IsList(cats[i])
                  THEN [k \in 1..Len(cats[i].v) |-> Lower(cats[i].v[k].v)]
                  ELSE <<>>])

\* [x.lower() for x in job_requirements[key]]
LowerList(job_requirements, key) ==
    LET l == Get(job_requirements, key, EmptyList).v IN [k \in 1..Len(l) |-> Lower(l[k].v)]

\* job_requirements and job_requirements.get(key)
JobHas(job_requirements, key) ==
    Truthy(job_requirements) /\ Truthy(Get(job_requirements, key, None))

Range(q) == {q[i] : i \in 1..Len(q)}

\* a ladder with two steps only
TwoStepLadder(skill_count) == IF skill_count >= 10 THEN 95 ELSE 30

SkillLadder(skill_count) ==
    IF skill_count >= 15 THEN 95
    ELSE IF skill_count >= 10 THEN 85
    ELSE IF skill_count >= 7 THEN 75
    ELSE IF skill_count >= 5 THEN 65
    ELSE IF skill_count >= 3 THEN 50
    ELSE 30

\* (matched_skills / total_required) * 100, capped
MatchPercentage(all_resume_skills, required_skills) ==
    QMin(Q(Cardinality(Range(all_resume_skills) \cap Range(required_skills)) * 100,
           Len(required_skills)),
         QInt(100))

\* _score_skills_match once all_resume_skills is collected
SkillsScore(all_resume_skills, job_requirements) ==
    IF all_resume_skills = <<>> THEN QInt(0)
    ELSE IF JobHas(job_requirements, "required_skills")
    THEN MatchPercentage(all_resume_skills, LowerList(job_requirements, "required_skills"))
    ELSE QInt(SkillLadder(Len(all_resume_skills)))

_score_skills_match(resume_data, job_requirements) ==
    SkillsScore(AllResumeSkills(resume_data), job_requirements)

\* the value of a str or None argument of _calculate_duration as a string ("" for None)
StrOf(x) == IF IsStr(x) THEN x.v ELSE ""

\* end_year - start_year + (end_month - start_month) / 12, never negative; 0.0 when an
\* int() raised ValueError
YearsBetween(sy, sm, ey, em) ==
    IF sy.ok /\ sm.ok /\ ey.ok /\ em.ok
    THEN QMax(QAdd(QInt(ey.v - sy.v), Q(em.v - sm.v, 12)), QInt(0))
    ELSE QInt(0)

DurationBetween(start_parts, end_parts) ==
    IF Len(start_parts) >= 2 /\ Len(end_parts) >= 2
    THEN YearsBetween(PyInt(start_parts[Len(start_parts)]), PyInt(start_parts[1]),
                      PyInt(end_parts[Len(end_parts)]), PyInt(end_parts[1]))
    ELSE QInt(0)

\* current_year - start_year, never negative
YearsSince(sy, now_year) ==
    IF sy.ok /\ now_year > sy.v THEN QInt(now_year - sy.v) ELSE QInt(0)

DurationSince(start_parts, now_year) ==
    IF Len(start_parts) >= 2 THEN YearsSince(PyInt(start_parts[Len(start_parts)]), now_year)
    ELSE QInt(0)

_calculate_duration(start_date, end_date, now_year) ==
    IF ~Truthy(start_date) THEN QInt(0)
    ELSE IF Truthy(end_date) /\ Lower(StrOf(end_date)) # "present"
    THEN DurationBetween(Split(StrOf(start_date), "/"), Split(StrOf(end_date), "/"))
    ELSE DurationSince(Split(StrOf(start_date), "/"), now_year)

SeniorWords == <<"senior", "lead", "manager", "director", "vp">>
JuniorWords == <<"junior", "intern", "assistant">>

AnyIn(words, text) == \E i \in 1..Len(words) : Contains(words[i], text)

\* the strings of a list value
StrList(l) == [k \in 1..Len(l.v) |-> l.v[k].v]

DurationPoints(duration) ==
    IF QLe(QInt(3), duration) THEN 30 ELSE IF QLe(QInt(1), duration) THEN 20 ELSE 10

ResponsibilityPoints(n) == IF n >= 5 THEN 25 ELSE IF n >= 3 THEN 20 ELSE 10

AchievementPoints(achievements) ==
    IF ~Truthy(achievements) THEN 0
    ELSE IF Count(Quantified(achievements.v)) > 0 THEN 25 + 15
    ELSE 25

\* every entry weighing the same
UnitWeight(title) == QInt(1)

\* the seniority bonus and the entry's weight, from the lower-cased title
TitlePoints(title) == IF AnyIn(SeniorWords, title) THEN 20 ELSE 0
TitleWeight(title) ==
    IF AnyIn(SeniorWords, title) THEN Q(3, 2)
    ELSE IF AnyIn(JuniorWords, title) THEN Q(4, 5)
    ELSE QInt(1)

\* relevance_matches * 10
RelevancePoints(exp_text, job_requirements) ==
    IF JobHas(job_requirements, "preferred_experience")
    THEN 10 * Count([i \in 1..Len(LowerList(job_requirements, "preferred_experience")) |->
                        Contains(LowerList(job_requirements, "preferred_experience")[i],
                                 exp_text)])
    ELSE 0

\* exp_score and weight of one experience entry
ExperienceEntry(exp, job_requirements, now_year) ==
    [exp_score |->
        DurationPoints(_calculate_duration(Get(exp, "start_date", None),
                                           Get(exp, "end_date", None), now_year))
        + ResponsibilityPoints(Len(Get(exp, "responsibilities", EmptyList).v))
        + AchievementPoints(Get(exp, "achievements", EmptyList))
        + TitlePoints(Lower(Get(exp, "title", EmptyStr).v))
        + RelevancePoints(Lower(Get(exp, "title", EmptyStr).v \o " "
                                \o JoinWith(StrList(Get(exp, "responsibilities", EmptyList)), " ")),
                          job_requirements),
     weight |-> TitleWeight(Lower(Get(exp, "title", EmptyStr).v))]

\* total_score / weights_sum without the cap
UncappedAverage(e) ==
    QDiv(QSum([i \in 1..Len(e) |-> QMul(QInt(e[i].exp_score), e[i].weight)]),
         QSum([i \in 1..Len(e) |-> e[i].weight]))

\* total_score / weights_sum, capped, over the scored entries e
WeightedAverage(e) ==
    QMin(QDiv(QSum([i \in 1..Len(e) |-> QMul(QInt(e[i].exp_score), e[i].weight)]),
              QSum([i \in 1..Len(e) |-> e[i].weight])),
         QInt(100))

_score_experience_relevance(resume_data, job_requirements, now_year) ==
    LET experience == Get(resume_data, "experience", EmptyList)
    IN  IF ~Truthy(experience) THEN QInt(0)
        ELSE WeightedAverage([i \in 1..Len(experience.v) |->
                                ExperienceEntry(experience.v[i], job_requirements, now_year)])

\* every degree at the lowest level
FlatDegree(degree) == 40

\* the degree-level points of a lower-cased degree text
DegreeLevel(degree) ==
    IF Contains("phd", degree) \/ Contains("doctorate", degree) THEN 100
    ELSE IF Contains("master", degree) \/ Contains("mba", degree) THEN 85
    ELSE IF Contains("bachelor", degree) THEN 75
    ELSE IF Contains("associate", degree) THEN 60
    ELSE IF AnyIn(<<"certificate", "diploma">>, degree) THEN 50
    ELSE 40

\* the bonus for float(gpa)
GpaPoints(gpa_float) ==
    IF ~gpa_float.ok THEN 0
    ELSE IF QLe(Q(37, 10), gpa_float.v) THEN 15
    ELSE IF QLe(Q(33, 10), gpa_float.v) THEN 10
    ELSE IF QLe(QInt(3), gpa_float.v) THEN 5
    ELSE 0

\* the GPA bonus of edu.get("gpa")
GpaBonus(gpa) == IF ~Truthy(gpa) THEN 0 ELSE GpaPoints(PyFloat(StrOf(gpa)))

\* the field-relevance bonus of a lower-cased degree text
FieldPoints(degree, job_requirements) ==
    IF JobHas(job_requirements, "preferred_education")
       /\ AnyIn(LowerList(job_requirements, "preferred_education"), degree)
    THEN 20 ELSE 0

\* edu_score of one education entry
EducationEntry(edu, job_requirements) ==
    DegreeLevel(Lower(Get(edu, "degree", EmptyStr).v))
    + (IF AnyIn(<<"university", "college", "institute">>,
                Lower(Get(edu, "institution", EmptyStr).v)) THEN 10 ELSE 0)
    + GpaBonus(Get(edu, "gpa", None))
    + FieldPoints(Lower(Get(edu, "degree", EmptyStr).v), job_requirements)

RECURSIVE MaxOf(_)
\* max over a sequence of integers, starting from 0
MaxOf(q) == IF q = <<>> THEN 0 ELSE LET m == MaxOf(Tail(q)) IN IF q[1] > m THEN q[1] ELSE m

\* the highest entry score alone, without the base score of a resume that lists no education
EducationWithoutBase(resume_data, job_requirements) ==
    QMin(QInt(MaxOf([i \in 1..Len(Items(Get(resume_data, "education", EmptyList))) |->
                       EducationEntry(Get(resume_data, "education", EmptyList).v[i],
                                      job_requirements)])),
         QInt(100))

_score_education_alignment(resume_data, job_requirements) ==
    LET education == Get(resume_data, "education", EmptyList)
    IN  IF ~Truthy(education) THEN QInt(40)
        ELSE QMin(QInt(MaxOf([i \in 1..Len(education.v) |->
                                EducationEntry(education.v[i], job_requirements)])),
                  QInt(100))

\* no points for the skill categories
NoCategoryPoints(skills) == 0

\* the points for the number of non-empty skill categories
SkillCategoryPoints(skills) ==
    LET skill_categories == Count([i \in 1..Len(Values(skills)) |-> Truthy(Values(skills)[i])])
    IN  IF ~Truthy(skills) THEN 0
        ELSE IF skill_categories >= 3 THEN 20
        ELSE IF skill_categories >= 2 THEN 15
        ELSE IF skill_categories >= 1 THEN 10
        ELSE 0

\* (complete_experiences / len(experience)) * 20
ExperienceCompleteness(experience) ==
    IF ~Truthy(experience) THEN QInt(0)
    ELSE Q(20 * Count([i \in 1..Len(experience.v) |->
                          \A field \in {"title", "company", "start_date"} :
                             Truthy(Get(experience.v[i], field, None))]),
           Len(experience.v))

_score_format_structure(resume_data) ==
    LET required_sections == <<"personal_info", "experience", "education", "skills">>
        personal_info     == Get(resume_data, "personal_info", EmptyDict)
        required_personal == <<"name", "email", "phone">>
    IN  QMin(QSum(<< Q(40 * Count([i \in 1..Len(required_sections) |->
                                     Truthy(Get(resume_data, required_sections[i], None))]),
                       Len(required_sections)),
                     Q(20 * Count([i \in 1..Len(required_personal) |->
                                     /\ Truthy(Get(personal_info, required_personal[i], None))
                                     /\ Get(personal_info, required_personal[i], None)
                                           # Str("Not specified")]),
                       Len(required_personal)),
                     ExperienceCompleteness(Get(resume_data, "experience", EmptyList)),
                     QInt(SkillCategoryPoints(Get(resume_data, "skills", EmptyDict))) >>),
             QInt(100))

\* the strings a dict contributes: its str values, and str() of the items of its list values
DictTexts(d) ==
    LET vals == Values(d)
    IN  Concat([i \in 1..Len(vals) |->
                  IF IsStr(vals[i]) THEN <<vals[i].v>>
                  ELSE IF IsList(vals[i])
                  THEN [k \in 1..Len(vals[i].v) |-> PyStr(vals[i].v[k])]
                  ELSE <<>>])

\* the strings the items of a list section contribute
ListTexts(items) ==
    Concat([i \in 1..Len(items) |->
              IF IsDict(items[i]) THEN DictTexts(items[i]) ELSE <<PyStr(items[i])>>])

\* the strings one top-level section contributes to the text
SectionTexts(section_name, section_data) ==
    IF section_name = "metadata" THEN <<>>
    ELSE IF IsStr(section_data) THEN <<section_data.v>>
    ELSE IF IsDict(section_data) THEN DictTexts(section_data)
    ELSE IF IsList(section_data) THEN ListTexts(section_data.v)
    ELSE <<>>

_extract_all_text(resume_data) ==
    JoinWith(Concat([i \in 1..Len(resume_data.v) |->
                       SectionTexts(resume_data.v[i][1], resume_data.v[i][2])]), " ")

GeneralKeywords == <<"management", "leadership", "communication", "project", "team",
                     "problem solving", "analysis", "strategy", "development">>

\* the keywords of the job requirements, [] when there are none
JobKeywords(job_requirements) ==
    (IF JobHas(job_requirements, "keywords")
     THEN LowerList(job_requirements, "keywords") ELSE <<>>)
    \o (IF JobHas(job_requirements, "required_skills")
        THEN LowerList(job_requirements, "required_skills") ELSE <<>>)

\* the keywords the resume text is searched for
TargetKeywords(job_requirements) ==
    IF JobKeywords(job_requirements) = <<>> THEN GeneralKeywords
    ELSE JobKeywords(job_requirements)

\* _score_keyword_optimization once the text and the targets are known
KeywordScore(all_text, target_keywords) ==
    IF all_text = "" THEN QInt(0)
    ELSE QMin(Q(100 * Count([i \in 1..Len(target_keywords) |->
                                Contains(target_keywords[i], all_text)]),
                Len(target_keywords)),
              QInt(100))

_score_keyword_optimization(resume_data, job_requirements) ==
    KeywordScore(Lower(_extract_all_text(resume_data)), TargetKeywords(job_requirements))

Categories == <<"skills_match", "experience_relevance", "education_alignment",
                "format_structure", "keyword_optimization">>

\* category_scores of score_resume, in the order of Categories
CategoryScores(resume_data, job_requirements, now_year) ==
    << _score_skills_match(resume_data, job_requirements),
       _score_experience_relevance(resume_data, job_requirements, now_year),
       _score_education_alignment(resume_data, job_requirements),
       _score_format_structure(resume_data),
       _score_keyword_optimization(resume_data, job_requirements) >>

-----------------------------------------------------------------------------
(* The exceptions of the scorers.  Every field of a resume holds a value of its type (a
   str, a list of str, a dict, a list of dicts) or null; the job requirements are of
   their types. *)

\* line 174: skills.values() on a value that is not a dict; line 176: skill.lower() on a
\* skill that is not a str
SkillsRaises(resume_data) ==
    \/ ~IsDict(Get(resume_data, "skills", EmptyDict))
    \/ \E i \in 1..Len(Get(resume_data, "skills", EmptyDict).v) :
          \E k \in 1..Len(Items(Get(resume_data, "skills", EmptyDict).v[i][2])) :
             ~IsStr(Items(Get(resume_data, "skills", EmptyDict).v[i][2])[k])

\* lines 438, 439, 452: end_date.lower() and start_date.split() on a value that is not a
\* str; only ValueError and IndexError are caught
DurationRaises(start_date, end_date) ==
    /\ Truthy(start_date)
    /\ \/ Truthy(end_date) /\ ~IsStr(end_date)
       \/ ~IsStr(start_date)

\* one entry of the loop of _score_experience_relevance: exp.get (line 225), the duration,
\* len(responsibilities) (line 235), the characters of an achievement (line 247),
\* title.lower() (line 252), " ".join(responsibilities) (line 262)
ExperienceEntryRaises(exp, job_requirements) ==
    \/ ~IsDict(exp)
    \/ DurationRaises(Get(exp, "start_date", None), Get(exp, "end_date", None))
    \/ IsNone(Get(exp, "responsibilities", EmptyList))
    \/ \E k \in 1..Len(Items(Get(exp, "achievements", EmptyList))) :
          IsNone(Items(Get(exp, "achievements", EmptyList))[k])
    \/ ~IsStr(Get(exp, "title", EmptyStr))
    \/ /\ JobHas(job_requirements, "preferred_experience")
       /\ \E k \in 1..Len(Items(Get(exp, "responsibilities", EmptyList))) :
             ~IsStr(Items(Get(exp, "responsibilities", EmptyList))[k])

ExperienceRaises(resume_data, job_requirements) ==
    /\ Truthy(Get(resume_data, "experience", EmptyList))
    /\ \/ ~IsList(Get(resume_data, "experience", EmptyList))
       \/ \E i \in 1..Len(Get(resume_data, "experience", EmptyList).v) :
             ExperienceEntryRaises(Get(resume_data, "experience", EmptyList).v[i],
                                   job_requirements)

\* one entry of the loop of _score_education_alignment: edu.get and .lower() (lines 290,
\* 307), float(gpa) with an argument that is not a str (line 315, TypeError)
EducationEntryRaises(edu) ==
    \/ ~IsDict(edu)
    \/ ~IsStr(Get(edu, "degree", EmptyStr))
    \/ ~IsStr(Get(edu, "institution", EmptyStr))
    \/ Truthy(Get(edu, "gpa", None)) /\ ~IsStr(Get(edu, "gpa", None))

EducationRaises(resume_data) ==
    /\ Truthy(Get(resume_data, "education", EmptyList))
    /\ \/ ~IsList(Get(resume_data, "education", EmptyList))
       \/ \E i \in 1..Len(Get(resume_data, "education", EmptyList).v) :
             EducationEntryRaises(Get(resume_data, "education", EmptyList).v[i])

\* _score_format_structure: personal_info.get (line 351), exp.get (line 363),
\* skills.values() (line 372)
FormatRaises(resume_data) ==
    \/ ~IsDict(Get(resume_data, "personal_info", EmptyDict))
    \/ /\ Truthy(Get(resume_data, "experience", EmptyList))
       /\ \/ ~IsList(Get(resume_data, "experience", EmptyList))
          \/ \E i \in 1..Len(Get(resume_data, "experience", EmptyList).v) :
                ~IsDict(Get(resume_data, "experience", EmptyList).v[i])
    \/ /\ Truthy(Get(resume_data, "skills", EmptyDict))
       /\ ~IsDict(Get(resume_data, "skills", EmptyDict))

\* _generate_detailed_breakdown: .get on personal_info and skills (lines 546, 549), the
\* loop over the achievements of each entry (lines 556-558)
BreakdownRaises(resume_data) ==
    \/ ~IsDict(Get(resume_data, "personal_info", EmptyDict))
    \/ ~IsDict(Get(resume_data, "skills", EmptyDict))
    \/ /\ Truthy(Get(resume_data, "experience", EmptyList))
       /\ ~IsList(Get(resume_data, "experience", EmptyList))
    \/ /\ Truthy(Get(resume_data, "experience", EmptyList))
       /\ \E i \in 1..Len(Items(Get(resume_data, "experience", EmptyList))) :
             \/ ~IsDict(Get(resume_data, "experience", EmptyList).v[i])
             \/ IsNone(Get(Get(resume_data, "experience", EmptyList).v[i],
                           "achievements", EmptyList))
             \/ \E k \in 1..Len(Items(Get(Get(resume_data, "experience", EmptyList).v[i],
                                          "achievements", EmptyList))) :
                   IsNone(Items(Get(Get(resume_data, "experience", EmptyList).v[i],
                                    "achievements", EmptyList))[k])

\* score_resume leaves by an exception: one of the scorers or the breakdown raises
\* (_extract_all_text and the other steps raise on none of these values)
ScoreRaises(resume_data, job_requirements) ==
    \/ SkillsRaises(resume_data)
    \/ ExperienceRaises(resume_data, job_requirements)
    \/ EducationRaises(resume_data)
    \/ FormatRaises(resume_data)
    \/ BreakdownRaises(resume_data)

-----------------------------------------------------------------------------
(* The fingerprint *)

RECURSIVE InsertPair(_, _)
\* pair kv put into the key-sorted sequence of pairs p
InsertPair(kv, p) ==
    IF p = <<>> THEN <<kv>>
    ELSE IF StrLess(kv[1], p[1][1]) THEN <<kv>> \o p
    ELSE <<p[1]>> \o InsertPair(kv, Tail(p))

\* the pairs of p as they were inserted: what json.dumps emits without sort_keys
InsertionOrder(p) == p

RECURSIVE SortPairs(_)
\* the pairs of p ordered by key, as json.dumps(sort_keys=True) emits them
SortPairs(p) == IF p = <<>> THEN <<>> ELSE InsertPair(p[1], SortPairs(Tail(p)))

RECURSIVE JsonDumps(_)
\* json.dumps(x, sort_keys=True): the value with the keys of every dict, at any depth, in
\* sorted order and lists in their own order.  Two values get equal JSON text iff they
\* get equal JsonDumps (the text itself is not spelled out).
JsonDumps(x) ==
    CASE IsDict(x) ->
            LET p == SortPairs(x.v)
            IN  Dict([i \in 1..Len(p) |-> <<p[i][1], JsonDumps(p[i][2])>>])
      [] IsList(x) -> List([i \in 1..Len(x.v) |-> JsonDumps(x.v[i])])
      [] OTHER     -> x

\* job_requirements or {}
OrEmptyDict(job_requirements) == IF Truthy(job_requirements) THEN job_requirements ELSE EmptyDict

\* a fingerprint of the resume and the job requirements alone
HashWithoutWeights(resume_data, job_requirements, w) ==
    << JsonDumps(resume_data), JsonDumps(OrEmptyDict(job_requirements)) >>

\* hashlib.md5(...).hexdigest() of f"{resume_str}|{job_str}|{self.weights.__dict__}": the
\* three parts themselves, MD5 being taken as free of collisions on them
_generate_consistency_hash(resume_data, job_requirements, w) ==
    << JsonDumps(resume_data), JsonDumps(OrEmptyDict(job_requirements)), w >>

-----------------------------------------------------------------------------
(* The aggregate: overall score, breakdown, confidence interval, benchmark, advice *)

\* sum of category score times weight, in the order of Categories
WeightedSum(scores, w) == QSum([i \in 1..5 |-> QMul(scores[i], w[i])])

\* f"{score:.1f}": the score in tenths, nearest, a tie going to the even one
Round1(q) ==
    LET m   == 10 * q.n
        fl  == m \div q.d
        rem == m - fl * q.d
    IN  IF 2 * rem < q.d THEN fl
        ELSE IF 2 * rem > q.d THEN fl + 1
        ELSE IF fl % 2 = 0 THEN fl ELSE fl + 1

\* levels without Good
LevelWithoutGood(score) ==
    IF QLe(QInt(90), score) THEN "Excellent"
    ELSE IF QLe(QInt(60), score) THEN "Fair"
    ELSE "Needs Improvement"

Level(score) ==
    IF QLe(QInt(90), score) THEN "Excellent"
    ELSE IF QLe(QInt(75), score) THEN "Good"
    ELSE IF QLe(QInt(60), score) THEN "Fair"
    ELSE "Needs Improvement"

\* the entries of sequence q whose flag in keep is TRUE, in order
Selected(q, keep) == Concat([i \in 1..Len(q) |-> IF keep[i] THEN <<q[i]>> ELSE <<>>])

MissingElements(resume_data) ==
    (IF ~Truthy(Get(Get(resume_data, "personal_info", EmptyDict), "linkedin", None))
     THEN <<"LinkedIn profile URL">> ELSE <<>>)
    \o (IF ~Truthy(Get(Get(resume_data, "skills", EmptyDict), "certifications", None))
        THEN <<"Professional certifications">> ELSE <<>>)
    \o (IF Truthy(Get(resume_data, "experience", EmptyList))
           /\ \A i \in 1..Len(Get(resume_data, "experience", EmptyList).v) :
                 Count(Quantified(Get(Get(resume_data, "experience", EmptyList).v[i],
                                      "achievements", EmptyList).v)) = 0
        THEN <<"Quantified achievements with numbers/percentages">> ELSE <<>>)

_generate_detailed_breakdown(resume_data, scores, w, now) ==
    LET labelled == [i \in 1..5 |-> [category |-> Categories[i], score |-> Round1(scores[i])]]
    IN  [scoring_timestamp |-> now,
         weights_used      |-> w,
         category_analysis |-> [i \in 1..5 |-> [score |-> scores[i], level |-> Level(scores[i])]],
         strengths         |-> Selected(labelled, [i \in 1..5 |-> Level(scores[i]) = "Excellent"]),
         weaknesses        |-> Selected(labelled,
                                  [i \in 1..5 |->
                                      Level(scores[i]) \in {"Fair", "Needs Improvement"}]),
         missing_elements  |-> MissingElements(resume_data)]

RECURSIVE ISqrtIn(_, _, _)
\* the largest m in lo..hi with m * m <= x
ISqrtIn(x, lo, hi) ==
    IF lo >= hi THEN lo
    ELSE LET mid == (lo + hi + 1) \div 2
         IN  IF mid * mid <= x THEN ISqrtIn(x, mid, hi) ELSE ISqrtIn(x, lo, mid - 1)

\* 1.96 * (np.std(scores) / np.sqrt(5)) in hundredths.  The standard deviation is taken over
\* the scores in hundredths and is itself cut to hundredths; 1.96 / sqrt(5) is 0.87654.
StdMargin(x, mean) ==
    (ISqrtIn(((x[1] - mean) * (x[1] - mean) + (x[2] - mean) * (x[2] - mean)
              + (x[3] - mean) * (x[3] - mean) + (x[4] - mean) * (x[4] - mean)
              + (x[5] - mean) * (x[5] - mean)) \div 5, 0, 10000) * 87654) \div 100000

MarginOf(x) == StdMargin(x, (2 * (x[1] + x[2] + x[3] + x[4] + x[5]) + 5) \div 10)

MarginError(scores) == MarginOf([i \in 1..5 |-> Round2(scores[i])])

\* (max(0, overall - margin_error), min(100, overall + margin_error))
Interval(overall, margin_error) ==
    << QMax(QInt(0), QSub(overall, margin_error)),
       QMin(QInt(100), QAdd(overall, margin_error)) >>

_calculate_confidence_interval(scores, w) ==
    Interval(WeightedSum(scores, w), Q(MarginError(scores), 100))

\* the "general" row for every industry
GeneralBenchmark(industry) == <<70, 85>>

\* industry_benchmarks: <<average_score, top_percentile>>
Benchmark(industry) ==
    CASE industry = "technology" -> <<75, 90>>
      [] industry = "healthcare" -> <<70, 85>>
      [] industry = "finance"    -> <<78, 92>>
      [] industry = "marketing"  -> <<72, 87>>
      [] OTHER                   -> <<70, 85>>

_compare_with_benchmarks(score, industry) ==
    LET benchmark == Benchmark(industry)
        average   == benchmark[1]
        top       == benchmark[2]
        verdict   ==
            IF QLe(QInt(top), score) THEN <<"Top 10%", 95>>
            ELSE IF QLe(QInt(average + 10), score) THEN <<"Above Average", 75>>
            ELSE IF QLe(QInt(average), score) THEN <<"Average", 50>>
            ELSE IF QLe(QInt(average - 10), score) THEN <<"Below Average", 25>>
            ELSE <<"Needs Significant Improvement", 10>>
    IN  [industry |-> industry,
         score |-> score,
         industry_average |-> average,
         top_percentile_threshold |-> top,
         performance_level |-> verdict[1],
         percentile_estimate |-> verdict[2]]

\* the advice on the mean of the scores alone
RewriteOnly(scores) ==
    IF QLt(QDiv(QSum(scores), QInt(5)), QInt(60))
    THEN <<"Consider professional resume review and rewriting">> ELSE <<>>

_generate_scoring_recommendations(scores) ==
    (IF QLt(scores[1], QInt(70))
     THEN <<"Add more relevant technical skills matching job requirements">> ELSE <<>>)
    \o (IF QLt(scores[2], QInt(70))
        THEN <<"Include more quantified achievements in work experience",
               "Add action verbs and specific accomplishments">> ELSE <<>>)
    \o (IF QLt(scores[3], QInt(60))
        THEN <<"Consider adding relevant certifications or training">> ELSE <<>>)
    \o (IF QLt(scores[4], QInt(70))
        THEN <<"Improve resume formatting and organization",
               "Ensure all sections are complete and well-structured">> ELSE <<>>)
    \o (IF QLt(scores[5], QInt(70))
        THEN <<"Include more industry-relevant keywords",
               "Optimize for ATS keyword scanning">> ELSE <<>>)
    \o (IF QLt(QDiv(QSum(scores), QInt(5)), QInt(60))
        THEN <<"Consider professional resume review and rewriting">> ELSE <<>>)

-----------------------------------------------------------------------------
(* Weights *)

\* ScoringWeights(): 0.30, 0.25, 0.15, 0.15, 0.15
DefaultWeights == << Q(3, 10), Q(1, 4), Q(3, 20), Q(3, 20), Q(3, 20) >>

QAbs(a) == [n |-> Abs(a.n), d |-> a.d]

\* ScoringConfig.validate_weights: abs(total - 1.0) < 0.001
validate_weights(w) == QLt(QAbs(QSub(QSum(w), QInt(1))), Q(1, 1000))

\* ConfigManager._load_scoring_config: the weights of the environment, or the defaults
\* when they do not validate
_load_scoring_config(env) == IF validate_weights(env) THEN env ELSE DefaultWeights

\* render_sidebar: the sliders' weights are taken unless abs(total_weight - 1.0) > 0.01
SliderAccepts(w) == ~QLt(Q(1, 100), QAbs(QSub(QSum(w), QInt(1))))

-----------------------------------------------------------------------------
(* The arguments the engine is called with *)

\* the wall clock advances at most this many years
MaxTicks == 1
\* score_resume is called at most this many times
MaxCalls == 2

Years == 2026..(2026 + MaxTicks)

RECURSIVE Reordered(_)
\* the same value built in another insertion order: every dict, at any depth, with its
\* pairs reversed; lists keep their order
Reordered(x) ==
    CASE IsDict(x) ->
            Dict([i \in 1..Len(x.v) |->
                    <<x.v[Len(x.v) + 1 - i][1], Reordered(x.v[Len(x.v) + 1 - i][2])>>])
      [] IsList(x) -> List([i \in 1..Len(x.v) |-> Reordered(x.v[i])])
      [] OTHER     -> x

StrsList(q) == List([i \in 1..Len(q) |-> Str(q[i])])

\* a complete resume; its one position is still held ("Present")
MainResume ==
    Dict(<< <<"personal_info", Dict(<< <<"name", Str("Ann Lee")>>,
                                       <<"email", Str("ann@x.io")>>,
                                       <<"phone", Str("555 0100")>> >>)>>,
            <<"experience", List(<< Dict(<< <<"title", Str("Engineer")>>,
                                            <<"company", Str("Acme")>>,
                                            <<"start_date", Str("01/2024")>>,
                                            <<"end_date", Str("Present")>>,
                                            <<"responsibilities",
                                              StrsList(<<"built api", "ran tests", "wrote docs",
                                                         "fixed bugs", "did reviews">>)>>,
                                            <<"achievements", StrsList(<<"won award">>)>> >>) >>)>>,
            <<"education", List(<< Dict(<< <<"degree", Str("PhD")>>,
                                           <<"institution", Str("MIT")>> >>) >>)>>,
            <<"skills", Dict(<< <<"technical_skills", StrsList(<<"Python">>)>>,
                                <<"tools", StrsList(<<"Git">>)>>,
                                <<"soft_skills", StrsList(<<"Writing">>)>> >>)>> >>)

MainJob ==
    Dict(<< <<"required_skills", StrsList(<<"Python">>)>>,
            <<"keywords", StrsList(<<"agile", "scrum", "docker", "kafka", "golang">>)>> >>)

\* the <<resume_data, job_requirements, industry>> the engine is called with
EngineCalls ==
    { <<MainResume, MainJob, "technology">>,
      <<MainResume, MainJob, "healthcare">>,
      <<MainResume, None, "technology">>,
      <<Reordered(MainResume), EmptyDict, "technology">> }

\* weights that sum to 0.8
LowWeights == << Q(3, 10), Q(1, 4), Q(3, 20), Q(1, 20), Q(1, 20) >>
\* other weights that sum to 1.0
OtherWeights == << Q(1, 2), Q(1, 5), Q(1, 10), Q(1, 10), Q(1, 10) >>
\* weights that sum to 1.0005
HighWeights == << Q(601, 2000), Q(1, 4), Q(3, 20), Q(3, 20), Q(3, 20) >>

\* what the sliders can be set to, what the constructor can be given, what the
\* environment can hold
SliderWeights      == {DefaultWeights, LowWeights, OtherWeights}
ConstructorWeights == {DefaultWeights, LowWeights}
EnvWeights         == {DefaultWeights, LowWeights, OtherWeights, HighWeights}
EngineWeights      == SliderWeights \cup ConstructorWeights

-----------------------------------------------------------------------------
(* score_resume *)

\* lines 147-156 of score_resume: the ScoreResult built from the category scores
ScoreResult(resume_data, job_requirements, industry, w, now, scores) ==
    [overall_score         |-> Round2(WeightedSum(scores, w)),
     category_scores       |-> [i \in 1..5 |-> Round2(scores[i])],
     detailed_breakdown    |-> _generate_detailed_breakdown(resume_data, scores, w, now),
     confidence_interval   |-> [i \in 1..2 |->
                                   Round2(_calculate_confidence_interval(scores, w)[i])],
     consistency_hash      |-> _generate_consistency_hash(resume_data, job_requirements, w),
     benchmark_comparison  |-> _compare_with_benchmarks(WeightedSum(scores, w), industry),
     recommendations       |-> _generate_scoring_recommendations(scores)]

\* lines 115-156 of score_resume: the result computed on a cache miss
NewScoreResult(resume_data, job_requirements, industry, w, now) ==
    ScoreResult(resume_data, job_requirements, industry, w, now,
                CategoryScores(resume_data, job_requirements, now))

\* NewScoreResult on the engine's arguments, each computed once (@@ makes TLC hold the
\* function as a table of its values)
EngineResults ==
    [a \in EngineCalls \X EngineWeights \X Years |->
        NewScoreResult(a[1][1], a[1][2], a[1][3], a[2], a[3])] @@ <<>>

\* _generate_consistency_hash on the engine's arguments, each computed once
EngineHashes ==
    [a \in {<<c[1], c[2]>> : c \in EngineCalls} \X EngineWeights |->
        _generate_consistency_hash(a[1][1], a[1][2], a[2])] @@ <<>>

\* _log_scoring: the entry appended to scoring_history
LogEntry(result, job_requirements, industry, now) ==
    [timestamp            |-> now,
     resume_hash          |-> result.consistency_hash,
     overall_score        |-> result.overall_score,
     category_scores      |-> result.category_scores,
     industry             |-> industry,
     had_job_requirements |-> ~IsNone(job_requirements),
     confidence_interval  |-> result.confidence_interval]

\* a log that takes no entry
LogNothing(history, log_entry) == history

\* line 675: self.scoring_history.append(log_entry)
_log_scoring(history, log_entry) == Append(history, log_entry)

\* a dict that holds k alone
StoreAlone(d, k, v) == [x \in {k} |-> v]

\* d[k] = v
Store(d, k, v) == [x \in DOMAIN d \cup {k} |-> IF x = k THEN v ELSE d[x]]

\* d[k] += 1 on a counter that starts at 0
Counted(d, k) == Store(d, k, IF k \in DOMAIN d THEN d[k] + 1 ELSE 1)

NoCall == [valid |-> FALSE]
EmptyMap == [x \in {} |-> 0]

\* what is remembered of a finished call
CallRecord(resume_data, job_requirements, industry, hit, result) ==
    [valid |-> TRUE, same_engine |-> TRUE, resume |-> resume_data, job |-> job_requirements,
     industry |-> industry, weights |-> weights, year |-> year, hit |-> hit, result |-> result]

\* an engine that never finds a fingerprint in its cache
NeverHit(consistency_hash) == FALSE

\* line 110: consistency_hash in self.consistency_cache
CacheHit(consistency_hash) == consistency_hash \in DOMAIN consistency_cache

\* lines 111-113: the cached object, its consistency_hash assigned again
CachedResult(consistency_hash) ==
    [consistency_cache[consistency_hash] EXCEPT !.consistency_hash = consistency_hash]

\* the effects of one call that returns result
Return(resume_data, job_requirements, industry, consistency_hash, hit, result) ==
    /\ consistency_cache' = Store(consistency_cache, consistency_hash, result)
    /\ scoring_history' =
          IF hit THEN scoring_history
          ELSE _log_scoring(scoring_history,
                            LogEntry(result, job_requirements, industry, year))
    /\ scorer_runs' = IF hit THEN scorer_runs ELSE Counted(scorer_runs, consistency_hash)
    /\ last' = CallRecord(resume_data, job_requirements, industry, hit, result)
    /\ prev' = last

\* lines 109-164 of score_resume
Lookup(resume_data, job_requirements, industry, consistency_hash) ==
    Return(resume_data, job_requirements, industry, consistency_hash,
           CacheHit(consistency_hash),
           IF CacheHit(consistency_hash) THEN CachedResult(consistency_hash)
           ELSE EngineResults[<<<<resume_data, job_requirements, industry>>, weights, year>>])

\* one score_resume call, from entry to return
ScoreResume(resume_data, job_requirements, industry) ==
    /\ ncalls < MaxCalls
    /\ ncalls' = ncalls + 1
    /\ Lookup(resume_data, job_requirements, industry,
              EngineHashes[<< <<resume_data, job_requirements>>, weights >>])
    /\ UNCHANGED <<year, weights, scoring_config, threads, inp, out, recommendation_history>>

\* get_scoring_statistics: total_scored and consistency_rate (the averages and the score
\* distribution are left out)
get_scoring_statistics ==
    IF scoring_history = <<>> THEN [message |-> "No scoring history available"]
    ELSE [total_scored     |-> Len(scoring_history),
          consistency_rate |-> Q(100 * Cardinality(DOMAIN consistency_cache),
                                 Len(scoring_history))]

\* ATSScoringAgent(config_list, scoring_weights): a fresh engine
NewEngine(scoring_weights) ==
    /\ weights' = scoring_weights
    /\ scoring_history' = <<>>
    /\ consistency_cache' = EmptyMap
    /\ scorer_runs' = EmptyMap
    /\ last' = IF last.valid THEN [last EXCEPT !.same_engine = FALSE] ELSE last
    /\ prev' = IF prev.valid THEN [prev EXCEPT !.same_engine = FALSE] ELSE prev
    /\ UNCHANGED <<year, scoring_config, ncalls, threads, inp, out, recommendation_history>>

\* render_sidebar, lines 221-240: the sliders' weights replace the engine's
SetWeights(w) ==
    /\ weights' = IF SliderAccepts(w) THEN w ELSE weights
    /\ UNCHANGED <<year, consistency_cache, scoring_history, scoring_config, scorer_runs,
                   ncalls, last, prev, threads, inp, out, recommendation_history>>

\* the wall clock passes into the next year
Tick ==
    /\ year + 1 \in Years
    /\ year' = year + 1
    /\ UNCHANGED <<weights, consistency_cache, scoring_history, scoring_config, scorer_runs,
                   ncalls, last, prev, threads, inp, out, recommendation_history>>

Init ==
    /\ year = 2026
    /\ weights \in ConstructorWeights
    /\ consistency_cache = EmptyMap
    /\ scoring_history = <<>>
    /\ recommendation_history = <<>>
    /\ scoring_config \in {_load_scoring_config(env) : env \in EnvWeights}
    /\ scorer_runs = EmptyMap
    /\ ncalls = 0
    /\ last = NoCall
    /\ prev = NoCall
    /\ threads = <<>>
    /\ inp = NoCall
    /\ out = NoCall

Next ==
    \/ \E c \in EngineCalls : ScoreResume(c[1], c[2], c[3])
    \/ \E w \in ConstructorWeights : NewEngine(w)
    \/ \E w \in SliderWeights : SetWeights(w)
    \/ Tick

Spec == Init /\ [][Next]_vars

-----------------------------------------------------------------------------
(* One call on a fresh engine, over a wider range of resumes, jobs and weights *)

\* resume_data with the value of one section replaced
WithSection(resume_data, section, value) ==
    Dict([i \in 1..Len(resume_data.v) |->
            IF resume_data.v[i][1] = section THEN <<section, value>> ELSE resume_data.v[i]])

\* a senior position of six and a half years with a quantified achievement
SeniorEntry ==
    Dict(<< <<"title", Str("Senior Web Lead")>>,
            <<"company", Str("Acme")>>,
            <<"start_date", Str("01/2018")>>,
            <<"end_date", Str("07/2024")>>,
            <<"responsibilities",
              StrsList(<<"led team of 3", "ran web development", "set strategy",
                         "fixed bugs", "did reviews">>)>>,
            <<"achievements", StrsList(<<"cut cost by 40%">>)>> >>)

\* an internship with unreadable dates and nothing else
InternEntry ==
    Dict(<< <<"title", Str("Intern")>>,
            <<"start_date", Str("ab/2020")>>,
            <<"end_date", Str("2021")>> >>)

\* a position that ends before it starts
BackwardEntry ==
    Dict(<< <<"title", Str("Junior Analyst")>>,
            <<"company", Str("")>>,
            <<"start_date", Str("06/2020")>>,
            <<"end_date", Str("01/2019")>>,
            <<"responsibilities", StrsList(<<"wrote code", "ran tests", "led team">>)>> >>)

\* a senior position still held, with five responsibilities and two achievements, one of
\* them quantified
ScenarioEntry ==
    Dict(<< <<"title", Str("Senior Engineer")>>,
            <<"start_date", Str("01/2018")>>,
            <<"end_date", Str("Present")>>,
            <<"responsibilities",
              StrsList(<<"built api", "ran tests", "wrote docs", "fixed bugs", "did reviews">>)>>,
            <<"achievements", StrsList(<<"won award", "cut cost by 40%">>)>> >>)

\* SeniorEntry with one field null
NullFieldEntries ==
    { WithSection(SeniorEntry, field, None) :
         field \in {"title", "company", "start_date", "end_date", "responsibilities",
                    "achievements"} }

\* a position whose text ends with the word problem
ProblemEntry ==
    Dict(<< <<"title", Str("Engineer")>>,
            <<"company", Str("Acme")>>,
            <<"start_date", Str("01/2020")>>,
            <<"end_date", Str("01/2022")>>,
            <<"achievements", StrsList(<<"fixed a problem">>)>> >>)

\* a position whose text starts with the word Solving
SolvingEntry ==
    Dict(<< <<"title", Str("Solving Lead")>>,
            <<"company", Str("Bolt")>>,
            <<"start_date", Str("01/2022")>>,
            <<"end_date", Str("01/2024")>> >>)

ExperienceLists ==
    { EmptyList, List(<<SeniorEntry>>), List(<<ProblemEntry, SolvingEntry>>), List(<<InternEntry>>), List(<<BackwardEntry>>),
      List(<<SeniorEntry, InternEntry, BackwardEntry>>), List(<<EmptyDict>>),
      List(<<ScenarioEntry>>), List(<<ScenarioEntry, BackwardEntry>>) }
    \cup {List(<<x>>) : x \in NullFieldEntries}

\* an education entry with one field null
NullFieldEducation ==
    { WithSection(Dict(<< <<"degree", Str("Bachelor of Science")>>,
                          <<"institution", Str("State College")>>,
                          <<"gpa", Str("3.5")>> >>), field, None) :
         field \in {"degree", "institution", "gpa"} }

EducationLists ==
    {List(<<x>>) : x \in NullFieldEducation}
    \cup
    { EmptyList,
      List(<< Dict(<< <<"degree", Str("PhD in Physics")>>,
                      <<"institution", Str("Tech University")>>,
                      <<"gpa", Str("3.9")>> >>) >>),
      List(<< Dict(<< <<"degree", Str("Bachelor of Science")>>,
                      <<"institution", Str("State College")>>,
                      <<"gpa", Str("abc")>> >>),
              Dict(<< <<"degree", Str("Diploma in Arts")>>, <<"gpa", Str("3.3")>> >>) >>),
      List(<< Dict(<< <<"degree", Str("High School")>>, <<"gpa", Str("2.9")>> >>) >>),
      List(<< Dict(<< <<"degree", Str("Associate")>>, <<"gpa", Str("3.0")>> >>),
              Dict(<< <<"degree", Str("Certificate in Physics")>>,
                      <<"institution", Str("Tech Institute")>>,
                      <<"gpa", Str("3.7")>> >>) >>),
      List(<< Dict(<< <<"degree", Str("MBA")>>, <<"gpa", Str("3.69")>> >>),
              Dict(<< <<"degree", Str("Master PhD")>> >>),
              Dict(<< <<"degree", Str("Doctorate")>>, <<"gpa", Str("3.29")>> >>) >>),
      List(<< Dict(<< <<"institution", Str("City University")>> >>) >>) }

SkillPool == <<"Python", "SQL", "AWS", "Java", "Go", "Git", "Jira", "Vim", "Make", "Bash",
               "Rust", "Perl", "Ruby", "Lisp", "Dart", "Lua">>

\* n skills in two list-valued categories, next to a category that is not a list
SkillsOf(n) ==
    Dict(<< <<"technical_skills", StrsList(SubSeq(SkillPool, 1, (n + 1) \div 2))>>,
            <<"languages", Str("English")>>,
            <<"tools", StrsList(SubSeq(SkillPool, (n + 1) \div 2 + 1, n))>> >>)

SkillDicts ==
    {SkillsOf(n) : n \in {2, 5, 7, 10, 14, 16}}
    \cup
    { Dict(<< <<"technical_skills", None>>, <<"tools", StrsList(<<"Git">>)>> >>),
      Dict(<< <<"technical_skills", List(<<Str("Python"), None>>)>> >>) }
    \cup
    { EmptyDict,
      Dict(<< <<"technical_skills", StrsList(<<"Python">>)>> >>),
      Dict(<< <<"technical_skills", StrsList(<<"PYTHON", "Sql", "aws">>)>>,
              <<"languages", Str("English")>> >>),
      Dict(<< <<"technical_skills", StrsList(<<"Python", "SQL", "AWS", "Java", "Go">>)>>,
              <<"tools", StrsList(<<"Git", "Jira", "Vim", "Make", "Bash">>)>>,
              <<"soft_skills", StrsList(<<"Writing", "Talks", "Coaching", "Hiring", "Sales">>)>>,
              <<"certifications", EmptyList>> >>) }

PersonalInfos ==
    { EmptyDict,
      Dict(<< <<"name", Str("Ann Lee")>>, <<"email", Str("Not specified")>>,
              <<"linkedin", Str("in/ann")>> >>) }

\* MainResume in its senior form: every category at its cap against a job asking for Python
PerfectResume == WithSection(MainResume, "experience", List(<<SeniorEntry>>))

\* MainResume with one section null
NullSectionResumes ==
    { WithSection(MainResume, section, None) :
         section \in {"personal_info", "experience", "education", "skills"} }

\* resume_data with one more section
WithExtra(resume_data, section, value) == Dict(Append(resume_data.v, <<section, value>>))

\* MainResume with the word Boston in one more place: a section that is a string, a list in
\* a map, a map in a map, a map in a list in a map, a list in a list, the metadata section
NestedResumes ==
    { WithExtra(MainResume, "professional_summary", Str("Boston team lead")),
      WithExtra(MainResume, "additional_sections",
                Dict(<< <<"languages", StrsList(<<"English", "Boston">>)>> >>)),
      WithExtra(MainResume, "contact",
                Dict(<< <<"address", Dict(<< <<"city", Str("Boston")>> >>)>> >>)),
      WithExtra(MainResume, "projects",
                List(<< Dict(<< <<"name", Str("api")>>,
                                <<"sites", List(<< Dict(<< <<"city", Str("Boston")>> >>) >>)>> >>) >>)),
      WithExtra(MainResume, "awards", List(<< StrsList(<<"Boston">>) >>)),
      WithExtra(MainResume, "metadata", Dict(<< <<"file_name", Str("Boston")>> >>)) }

\* what _fallback_parsing of the resume processor returns for a text with one e-mail address
\* and the skill Python (its empty additional sections left out)
FallbackResume ==
    Dict(<< <<"personal_info", Dict(<< <<"name", Str("Not extracted")>>,
                                       <<"email", Str("ann@x.io")>>,
                                       <<"phone", Str("Not specified")>>,
                                       <<"location", Str("Not specified")>>,
                                       <<"linkedin", Str("Not specified")>>,
                                       <<"website", Str("Not specified")>> >>)>>,
            <<"professional_summary", Str("Not extracted - fallback parsing used")>>,
            <<"experience", EmptyList>>,
            <<"education", EmptyList>>,
            <<"skills", Dict(<< <<"technical_skills", StrsList(<<"Python">>)>>,
                                <<"soft_skills", EmptyList>>,
                                <<"certifications", EmptyList>> >>)>>,
            <<"projects", EmptyList>> >>)

ScorerResumes ==
    {EmptyDict, MainResume, PerfectResume, Dict(<< <<"summary", Str("team leadership")>> >>),
     FallbackResume}
    \cup NullSectionResumes
    \cup NestedResumes
    \cup {WithSection(MainResume, "experience", x) : x \in ExperienceLists}
    \cup {WithSection(MainResume, "education", x) : x \in EducationLists}
    \cup {WithSection(MainResume, "skills", x) : x \in SkillDicts}
    \cup {WithSection(MainResume, "personal_info", x) : x \in PersonalInfos}

ScorerJobs ==
    { None, EmptyDict, MainJob,
      Dict(<< <<"required_skills", StrsList(<<"Python">>)>> >>),
      Dict(<< <<"required_skills", StrsList(<<"Python", "SQL", "AWS">>)>> >>),
      Dict(<< <<"required_skills", StrsList(<<"Python", "python">>)>> >>),
      Dict(<< <<"required_skills", EmptyList>>,
              <<"preferred_experience",
                StrsList(<<"web", "team", "strategy", "lead", "bugs", "reviews">>)>>,
              <<"preferred_education", StrsList(<<"Physics", "science">>)>>,
              <<"keywords", StrsList(<<"Engineer", "agile">>)>> >>),
      Dict(<< <<"keywords", StrsList(<<"Boston">>)>> >>),
      Dict(<< <<"required_skills", StrsList(<<"Python">>)>>,
              <<"keywords", StrsList(<<"python", "agile">>)>> >>),
      Dict(<< <<"required_skills", StrsList(<<"Writing">>)>>,
              <<"keywords", StrsList(<<"Python", "Git">>)>> >>) }

\* weights that sum to 1.0, one of them negative
SkewedWeights == << Q(3, 2), Q(-1, 2), QInt(0), QInt(0), QInt(0) >>

ScorerWeights == {DefaultWeights, LowWeights, HighWeights, SkewedWeights}

\* what a call leaves when it raises
Raised == [valid |-> TRUE, raised |-> TRUE]

\* what a call that returns leaves: the category scores as the scorers returned them, and
\* the ScoreResult built from them
Returns(resume_data, job_requirements, industry, w, now, scores) ==
    [valid           |-> TRUE,
     raised          |-> FALSE,
     category_scores |-> scores,
     result          |-> ScoreResult(resume_data, job_requirements, industry, w, now, scores)]

\* score_resume(resume_data, job_requirements) on the fresh engine
Evaluate ==
    /\ inp.valid
    /\ ~out.valid
    /\ out' = IF ScoreRaises(inp.resume, inp.job) THEN Raised
              ELSE Returns(inp.resume, inp.job, "general", weights, year,
                           CategoryScores(inp.resume, inp.job, year))
    /\ UNCHANGED <<year, weights, consistency_cache, scoring_history, scoring_config,
                   scorer_runs, ncalls, last, prev, threads, inp, recommendation_history>>

InitScorers ==
    /\ year \in Years
    /\ weights \in ScorerWeights
    /\ consistency_cache = EmptyMap
    /\ scoring_history = <<>>
    /\ recommendation_history = <<>>
    /\ scoring_config = DefaultWeights
    /\ scorer_runs = EmptyMap
    /\ ncalls = 0
    /\ last = NoCall
    /\ prev = NoCall
    /\ threads = <<>>
    /\ inp \in {[valid |-> TRUE, resume |-> r, job |-> j] : r \in ScorerResumes, j \in ScorerJobs}
    /\ out = NoCall

NextScorers == Evaluate

\* the call has returned a ScoreResult
Returned == out.valid /\ ~out.raised

SpecScorers == InitScorers /\ [][NextScorers]_vars

-----------------------------------------------------------------------------
(* Two threads calling score_resume on one engine *)

\* the number of threads that call score_resume at once
NumThreads == 2

Threads == 1..NumThreads

\* the calls made at once
ThreadCalls ==
    { <<MainResume, MainJob, "technology">>,
      <<MainResume, MainJob, "healthcare">>,
      <<MainResume, None, "technology">> }

Idle == [pc |-> "idle"]

\* line 107: the thread enters score_resume and takes the fingerprint
Enter(t, resume_data, job_requirements, industry) ==
    /\ threads[t].pc = "idle"
    /\ threads' = [threads EXCEPT ![t] =
                      [pc |-> "check", resume |-> resume_data, job |-> job_requirements,
                       industry |-> industry,
                       consistency_hash |->
                           EngineHashes[<< <<resume_data, job_requirements>>, weights >>]]]
    /\ UNCHANGED <<year, weights, consistency_cache, scoring_history, scoring_config,
                   scorer_runs, ncalls, last, prev, inp, out, recommendation_history>>

\* line 110: the membership test on the cache
Check(t) ==
    /\ threads[t].pc = "check"
    /\ threads' = [threads EXCEPT ![t].pc =
                      IF CacheHit(threads[t].consistency_hash) THEN "cached" ELSE "score"]
    /\ UNCHANGED <<year, weights, consistency_cache, scoring_history, scoring_config,
                   scorer_runs, ncalls, last, prev, inp, out, recommendation_history>>

\* the thread's record once it holds the result it returns
Holding(th, pc, result) ==
    [pc |-> pc, resume |-> th.resume, job |-> th.job, industry |-> th.industry,
     consistency_hash |-> th.consistency_hash, result |-> result]

\* lines 111-113: the cached object is stamped and returned
ReturnCached(t) ==
    /\ threads[t].pc = "cached"
    /\ consistency_cache' =
          Store(consistency_cache, threads[t].consistency_hash,
                CachedResult(threads[t].consistency_hash))
    /\ threads' = [threads EXCEPT ![t] =
                      Holding(threads[t], "done", CachedResult(threads[t].consistency_hash))]
    /\ UNCHANGED <<year, weights, scoring_history, scoring_config, scorer_runs, ncalls,
                   last, prev, inp, out, recommendation_history>>

\* lines 115-156: the scorers run and the ScoreResult is built
Score(t) ==
    /\ threads[t].pc = "score"
    /\ scorer_runs' = Counted(scorer_runs, threads[t].consistency_hash)
    /\ threads' = [threads EXCEPT ![t] =
                      Holding(threads[t], "store",
                              EngineResults[<< <<threads[t].resume, threads[t].job,
                                                 threads[t].industry>>, weights, year >>])]
    /\ UNCHANGED <<year, weights, consistency_cache, scoring_history, scoring_config,
                   ncalls, last, prev, inp, out, recommendation_history>>

\* line 159: self.consistency_cache[consistency_hash] = result
StoreResult(t) ==
    /\ threads[t].pc = "store"
    /\ consistency_cache' =
          Store(consistency_cache, threads[t].consistency_hash, threads[t].result)
    /\ threads' = [threads EXCEPT ![t].pc = "log"]
    /\ UNCHANGED <<year, weights, scoring_history, scoring_config, scorer_runs, ncalls,
                   last, prev, inp, out, recommendation_history>>

\* line 162: _log_scoring, then the return
Log(t) ==
    /\ threads[t].pc = "log"
    /\ scoring_history' =
          _log_scoring(scoring_history,
                       LogEntry(threads[t].result, threads[t].job, threads[t].industry, year))
    /\ threads' = [threads EXCEPT ![t].pc = "done"]
    /\ UNCHANGED <<year, weights, consistency_cache, scoring_config, scorer_runs, ncalls,
                   last, prev, inp, out, recommendation_history>>

\* the wall clock passes into the next year while the threads run
TickConc ==
    /\ year + 1 \in Years
    /\ year' = year + 1
    /\ UNCHANGED <<weights, consistency_cache, scoring_history, scoring_config, scorer_runs,
                   ncalls, last, prev, threads, inp, out, recommendation_history>>

InitConc ==
    /\ year = 2026
    /\ weights = DefaultWeights
    /\ consistency_cache = EmptyMap
    /\ scoring_history = <<>>
    /\ recommendation_history = <<>>
    /\ scoring_config = DefaultWeights
    /\ scorer_runs = EmptyMap
    /\ ncalls = 0
    /\ last = NoCall
    /\ prev = NoCall
    /\ threads = [t \in Threads |-> Idle]
    /\ inp = NoCall
    /\ out = NoCall

NextConc ==
    \/ \E t \in Threads, c \in ThreadCalls : Enter(t, c[1], c[2], c[3])
    \/ \E t \in Threads : Check(t)
    \/ \E t \in Threads : ReturnCached(t)
    \/ \E t \in Threads : Score(t)
    \/ \E t \in Threads : StoreResult(t)
    \/ \E t \in Threads : Log(t)
    \/ TickConc

SpecConc == InitConc /\ [][NextConc]_vars

-----------------------------------------------------------------------------
(* The benchmark comparison, the recommendations, the breakdown and the skill taxonomy,
   each applied to its arguments *)

\* the industries of the table, and one that is not in it
Industries == {"technology", "healthcare", "finance", "marketing", "general", "retail"}

\* overall scores: every whole score from 55 to 95 with its neighbours a hundredth away, and
\* scores at and beyond the ends of the scale
BenchmarkScores ==
    {Q(100 * k + d, 100) : k \in 55..95, d \in {-1, 0, 1}}
    \cup {QInt(-50), QInt(0), QInt(100), QInt(150)}

\* category scores around the thresholds of the recommendation rules
ScoreLevels == {QInt(0), QInt(60), Q(6999, 100), QInt(70), QInt(100)}

ScoreVectors ==
    {<<a, b, c, d, e>> : a \in ScoreLevels, b \in ScoreLevels, c \in ScoreLevels,
                         d \in ScoreLevels, e \in ScoreLevels}

\* category scores at the thresholds of the levels and a hundredth below them
LevelScores == {Q(5999, 100), QInt(60), Q(7499, 100), QInt(75), Q(8999, 100), QInt(90)}

LevelVectors ==
    {<<a, b, c, d, e>> : a \in LevelScores, b \in LevelScores, c \in LevelScores,
                         d \in LevelScores, e \in LevelScores}

\* one entry of RAGKnowledgeBase.skill_taxonomy; key is its dict key, skill_name.lower()
SkillTaxonomy(skill_name, category, aliases, related_skills) ==
    [key |-> Lower(skill_name), skill_name |-> skill_name, category |-> category,
     aliases |-> aliases, related_skills |-> related_skills]

\* _get_default_skill_taxonomy, in the order it is loaded into the empty taxonomy
DefaultTaxonomy ==
    << SkillTaxonomy("Python", "Programming Languages", <<"python3", "py">>,
             <<"Django", "Flask", "FastAPI", "NumPy", "Pandas">>),
       SkillTaxonomy("JavaScript", "Programming Languages", <<"js", "javascript", "es6">>,
             <<"React", "Node.js", "TypeScript", "Vue.js">>),
       SkillTaxonomy("React", "Web Frameworks", <<"reactjs", "react.js">>,
             <<"JavaScript", "Redux", "Next.js", "TypeScript">>),
       SkillTaxonomy("Machine Learning", "Data Science", <<"ml", "artificial intelligence", "ai">>,
             <<"Python", "TensorFlow", "PyTorch", "Scikit-learn">>),
       SkillTaxonomy("SQL", "Databases", <<"mysql", "postgresql", "sqlite">>,
             <<"Python", "Data Analysis", "Database Design">>) >>

\* add_skill_to_taxonomy: self.skill_taxonomy[skill_name.lower()] = skill; a new key goes
\* last, a known key keeps its place
add_skill_to_taxonomy(taxonomy, skill) ==
    IF \E i \in 1..Len(taxonomy) : taxonomy[i].key = skill.key
    THEN [i \in 1..Len(taxonomy) |-> IF taxonomy[i].key = skill.key THEN skill ELSE taxonomy[i]]
    ELSE Append(taxonomy, skill)

\* the default taxonomy after add_skill_to_taxonomy of Go and of MongoDB
ExtendedTaxonomy ==
    add_skill_to_taxonomy(
        add_skill_to_taxonomy(DefaultTaxonomy,
                              SkillTaxonomy("Go", "Programming Languages", <<"golang">>, <<>>)),
        SkillTaxonomy("MongoDB", "Databases", <<"mongo">>, <<>>))

Taxonomies == {DefaultTaxonomy, ExtendedTaxonomy}

\* the test of one taxonomy entry in the loop of find_skill_matches: alias match, else
\* partial match
EntryMatches(skill_lower, entry) ==
    \/ \E k \in 1..Len(entry.aliases) : Lower(entry.aliases[k]) = skill_lower
    \/ Contains(skill_lower, entry.key)
    \/ Contains(entry.key, skill_lower)

\* the position in the taxonomy of the entry find_skill_matches gives a skill, 0 for none
MatchOf(taxonomy, skill) ==
    LET skill_lower == Lower(skill)
        direct      == {i \in 1..Len(taxonomy) : taxonomy[i].key = skill_lower}
        looped      == {i \in 1..Len(taxonomy) : EntryMatches(skill_lower, taxonomy[i])}
    IN  IF direct # {} THEN CHOOSE i \in direct : TRUE
        ELSE IF looped # {} THEN CHOOSE i \in looped : \A j \in looped : i <= j
        ELSE 0

\* find_skill_matches: the dict matches as its items <<skill, position of the entry>>, in
\* insertion order
find_skill_matches(taxonomy, skills) ==
    Selected([i \in 1..Len(skills) |-> <<skills[i], MatchOf(taxonomy, skills[i])>>],
             [i \in 1..Len(skills) |->
                 /\ MatchOf(taxonomy, skills[i]) # 0
                 /\ \A j \in 1..(i - 1) : skills[j] # skills[i]])

\* resume_categories / job_categories: per category, in order of first use, the matched
\* skills of that category
Categorized(taxonomy, matches) ==
    LET category(i) == taxonomy[matches[i][2]].category
        first == Selected([i \in 1..Len(matches) |-> category(i)],
                          [i \in 1..Len(matches) |->
                              \A j \in 1..(i - 1) : category(j) # category(i)])
    IN  [c \in 1..Len(first) |->
            <<first[c], Selected([i \in 1..Len(matches) |-> matches[i][1]],
                                 [i \in 1..Len(matches) |-> category(i) = first[c]])>>]

\* the skills of a category in a categorized dict, [] when the category is not a key
SkillsIn(categories, category) ==
    IF \E c \in 1..Len(categories) : categories[c][1] = category
    THEN categories[CHOOSE c \in 1..Len(categories) : categories[c][1] = category][2]
    ELSE <<>>

\* analyze_skill_gaps: missing_skills and category_gaps (skill_suggestions and the two
\* category dicts of the result are left out)
analyze_skill_gaps(taxonomy, resume_skills, job_requirements) ==
    LET resume_categories == Categorized(taxonomy, find_skill_matches(taxonomy, resume_skills))
        job_categories    == Categorized(taxonomy, find_skill_matches(taxonomy, job_requirements))
        missing_in(c)     ==
            Selected(job_categories[c][2],
                     [i \in 1..Len(job_categories[c][2]) |->
                         job_categories[c][2][i]
                            \notin Range(SkillsIn(resume_categories, job_categories[c][1]))])
        gaps == Selected([c \in 1..Len(job_categories) |->
                             <<job_categories[c][1], missing_in(c)>>],
                         [c \in 1..Len(job_categories) |-> missing_in(c) # <<>>])
    IN  [missing_skills |-> Concat([c \in 1..Len(gaps) |-> gaps[c][2]]),
         category_gaps  |-> gaps]

\* the skills find_skill_matches is asked for, one at a time
MatchSkills ==
    {"Python", "py", "PY3", "java", "ai", "postgresql", "cobol", "SQL Server", "React Native",
     "mongo", "golang", "Mongo", "go", "reactjs", "es6", "docker", "Node.js", "sqlite"}

\* the resume skills and the job skills of analyze_skill_gaps
ResumeSkillLists ==
    { <<"python", "javascript", "html", "css">>, <<"python">>, <<"py">>, <<"javascript">>,
      <<"React", "SQL">>, <<>> }

JobSkillLists ==
    { <<"python", "react", "node.js", "aws", "docker">>, <<"Python", "py", "React">>,
      <<"python">>, <<"python3">>, <<"react", "sql", "ml">>, <<"docker">> }

\* RAGKnowledgeBase.find_skill_matches(skills)
FindMatches ==
    /\ inp.valid /\ inp.kind = "skills"
    /\ ~out.valid
    /\ out' = [valid |-> TRUE, matches |-> find_skill_matches(inp.taxonomy, inp.skills)]
    /\ UNCHANGED <<year, weights, consistency_cache, scoring_history, scoring_config,
                   scorer_runs, ncalls, last, prev, threads, inp, recommendation_history>>

\* RAGKnowledgeBase.analyze_skill_gaps(resume_skills, job_requirements)
AnalyzeGaps ==
    /\ inp.valid /\ inp.kind = "gaps"
    /\ ~out.valid
    /\ out' = [valid |-> TRUE,
               gap_analysis |-> analyze_skill_gaps(inp.taxonomy, inp.resume_skills,
                                                   inp.job_requirements)]
    /\ UNCHANGED <<year, weights, consistency_cache, scoring_history, scoring_config,
                   scorer_runs, ncalls, last, prev, threads, inp, recommendation_history>>

\* _compare_with_benchmarks(score, industry)
Compare ==
    /\ inp.valid /\ inp.kind = "benchmark"
    /\ ~out.valid
    /\ out' = [valid |-> TRUE,
               benchmark_comparison |-> _compare_with_benchmarks(inp.score, inp.industry)]
    /\ UNCHANGED <<year, weights, consistency_cache, scoring_history, scoring_config,
                   scorer_runs, ncalls, last, prev, threads, inp, recommendation_history>>

\* _generate_scoring_recommendations(category_scores, detailed_breakdown)
Recommend ==
    /\ inp.valid /\ inp.kind = "scores"
    /\ ~out.valid
    /\ out' = [valid |-> TRUE,
               recommendations |-> _generate_scoring_recommendations(inp.category_scores)]
    /\ UNCHANGED <<year, weights, consistency_cache, scoring_history, scoring_config,
                   scorer_runs, ncalls, last, prev, threads, inp, recommendation_history>>

\* _generate_detailed_breakdown(resume_data, category_scores, job_requirements)
Breakdown ==
    /\ inp.valid /\ inp.kind = "breakdown"
    /\ ~out.valid
    /\ out' = [valid |-> TRUE,
               detailed_breakdown |->
                  _generate_detailed_breakdown(inp.resume, inp.category_scores, weights, year)]
    /\ UNCHANGED <<year, weights, consistency_cache, scoring_history, scoring_config,
                   scorer_runs, ncalls, last, prev, threads, inp, recommendation_history>>

InitFunctions ==
    /\ year = 2026
    /\ weights = DefaultWeights
    /\ consistency_cache = EmptyMap
    /\ scoring_history = <<>>
    /\ recommendation_history = <<>>
    /\ scoring_config = DefaultWeights
    /\ scorer_runs = EmptyMap
    /\ ncalls = 0
    /\ last = NoCall
    /\ prev = NoCall
    /\ threads = <<>>
    /\ inp \in {[valid |-> TRUE, kind |-> "benchmark", score |-> s, industry |-> i] :
                   s \in BenchmarkScores, i \in Industries}
               \cup {[valid |-> TRUE, kind |-> "scores", category_scores |-> v] :
                        v \in ScoreVectors}
               \cup {[valid |-> TRUE, kind |-> "breakdown", resume |-> MainResume,
                       category_scores |-> v] : v \in LevelVectors}
               \cup {[valid |-> TRUE, kind |-> "skills", taxonomy |-> x, skills |-> <<a, b>>] :
                        x \in Taxonomies, a \in MatchSkills, b \in MatchSkills}
               \cup {[valid |-> TRUE, kind |-> "gaps", taxonomy |-> x, resume_skills |-> r,
                       job_requirements |-> j] :
                        x \in Taxonomies, r \in ResumeSkillLists, j \in JobSkillLists}
    /\ out = NoCall

NextFunctions == Compare \/ Recommend \/ Breakdown \/ FindMatches \/ AnalyzeGaps

SpecFunctions == InitFunctions /\ [][NextFunctions]_vars

-----------------------------------------------------------------------------
(* generate_improvements of the improvement agent *)

\* _identify_weakest_areas: the categories that score below 70, lowest first (sorted is
\* stable); the scores are those of a ScoreResult, in hundredths
_identify_weakest_areas(category_scores) ==
    LET below(i) == Cardinality({j \in 1..5 :
                                    \/ category_scores[j] < category_scores[i]
                                    \/ category_scores[j] = category_scores[i] /\ j < i})
        sorted   == [k \in 1..5 |-> CHOOSE i \in 1..5 : below(i) = k - 1]
    IN  Selected([k \in 1..5 |-> Categories[sorted[k]]],
                 [k \in 1..5 |-> category_scores[sorted[k]] < 7000])

\* the years one experience entry adds in _estimate_total_experience
EntryYears(exp, now_year) ==
    LET start_date  == Get(exp, "start_date", EmptyStr).v
        end_date    == Get(exp, "end_date", Str("Present")).v
        start_parts == Split(start_date, "/")
        end_parts   == Split(end_date, "/")
        start_year  == PyInt(start_parts[Len(start_parts)])
        end_year    == IF Lower(end_date) = "present" THEN [ok |-> TRUE, v |-> now_year]
                       ELSE IF Len(end_parts) >= 2 THEN PyInt(end_parts[Len(end_parts)])
                       ELSE start_year
    IN  IF start_date = "" \/ Len(start_parts) < 2 \/ ~start_year.ok \/ ~end_year.ok THEN 0
        ELSE IF end_year.v > start_year.v THEN end_year.v - start_year.v ELSE 0

RECURSIVE SumOf(_)
SumOf(q) == IF q = <<>> THEN 0 ELSE q[1] + SumOf(Tail(q))

_estimate_total_experience(experience, now_year) ==
    SumOf([i \in 1..Len(experience.v) |-> EntryYears(experience.v[i], now_year)])

\* strategy["experience_building"] of _generate_long_term_strategy
ExperienceBuilding(years_experience) ==
    IF years_experience < 2
    THEN << "Focus on building foundational experience in core technologies",
            "Seek mentorship opportunities with senior developers",
            "Contribute to open-source projects to build portfolio",
            "Consider internships or entry-level positions for experience" >>
    ELSE IF years_experience < 5
    THEN << "Take on leadership roles in projects",
            "Develop expertise in specific technology domains",
            "Start mentoring junior team members",
            "Pursue complex technical challenges and solutions" >>
    ELSE << "Focus on strategic technical leadership",
            "Drive architectural decisions and technology adoption",
            "Build cross-functional collaboration skills",
            "Consider management or technical lead opportunities" >>

_estimate_improvement_potential(category_scores) ==
    [i \in 1..5 |-> IF category_scores[i] < 5000 THEN 30
                    ELSE IF category_scores[i] < 7000 THEN 20
                    ELSE IF category_scores[i] < 8500 THEN 10
                    ELSE 5]

\* the recommendations generate_improvements returns: the part of long_term_strategy that is
\* computed from the experience and the clock, and the metadata.  The other sub-generators
\* read their arguments only and are left out, and with them recommendation_count.
generate_improvements(resume_data, scoring_result, job_requirements, now) ==
    [long_term_strategy |->
        [experience_building |->
            ExperienceBuilding(
                _estimate_total_experience(Get(resume_data, "experience", EmptyList), now))],
     metadata |->
        [generation_timestamp |-> now,
         improvement_context  |->
            [overall_score    |-> scoring_result.overall_score,
             category_scores  |-> scoring_result.category_scores,
             weakest_areas    |-> _identify_weakest_areas(scoring_result.category_scores),
             missing_elements |-> scoring_result.detailed_breakdown.missing_elements,
             job_targeted     |-> ~IsNone(job_requirements)],
         score_improvement_potential |->
            _estimate_improvement_potential(scoring_result.category_scores)]]

\* log_entry of _log_recommendation_generation
RecommendationLogEntry(scoring_result, recommendations, now) ==
    [timestamp            |-> now,
     initial_score        |-> scoring_result.overall_score,
     weakest_areas        |-> _identify_weakest_areas(scoring_result.category_scores),
     has_job_requirements |-> recommendations.metadata.improvement_context.job_targeted]

\* line 800: self.recommendation_history.append(log_entry)
_log_recommendation_generation(history, log_entry) == Append(history, log_entry)

\* MainResume with its one position started in 01/2025
NewHireResume ==
    WithSection(MainResume, "experience",
                List(<< WithSection(MainResume.v[2][2].v[1], "start_date", Str("01/2025")) >>))

ImproveResumes == {MainResume, NewHireResume, PerfectResume}

\* the <<resume_data, scoring_result, job_requirements>> generate_improvements is called
\* with: a resume, its score of 2026 under the default weights, and the job scored against
ImproveCalls ==
    {<<r, NewScoreResult(r, j, "general", DefaultWeights, 2026), j>> :
        r \in ImproveResumes, j \in {None, MainJob}}

\* one generate_improvements call, from entry to return; the arguments are the objects the
\* caller holds, which the call reads and never assigns to
GenerateImprovements(resume_data, scoring_result, job_requirements) ==
    /\ ncalls < MaxCalls
    /\ ncalls' = ncalls + 1
    /\ recommendation_history' =
          _log_recommendation_generation(
              recommendation_history,
              RecommendationLogEntry(
                  scoring_result,
                  generate_improvements(resume_data, scoring_result, job_requirements, year),
                  year))
    /\ last' = [valid |-> TRUE, resume |-> resume_data, scoring_result |-> scoring_result,
                job |-> job_requirements, year |-> year,
                resume_after |-> resume_data, scoring_result_after |-> scoring_result,
                job_after |-> job_requirements,
                recommendations |->
                   generate_improvements(resume_data, scoring_result, job_requirements, year)]
    /\ prev' = last
    /\ UNCHANGED <<year, weights, consistency_cache, scoring_history, scoring_config,
                   scorer_runs, threads, inp, out>>

InitImprove ==
    /\ year = 2026
    /\ weights = DefaultWeights
    /\ consistency_cache = EmptyMap
    /\ scoring_history = <<>>
    /\ recommendation_history = <<>>
    /\ scoring_config = DefaultWeights
    /\ scorer_runs = EmptyMap
    /\ ncalls = 0
    /\ last = NoCall
    /\ prev = NoCall
    /\ threads = <<>>
    /\ inp = NoCall
    /\ out = NoCall

NextImprove ==
    \/ \E c \in ImproveCalls : GenerateImprovements(c[1], c[2], c[3])
    \/ Tick

SpecImprove == InitImprove /\ [][NextImprove]_vars

-----------------------------------------------------------------------------
(* Properties of the cache (Spec) *)

\* the fingerprint of the call a step makes
HashOfStep == EngineHashes[<< <<last'.resume, last'.job>>, weights >>]

\* a step that is a score_resume call
IsCall == ncalls' = ncalls + 1

\* C1: a call whose fingerprint is already in consistency_cache runs no category scorer,
\* adds no cache entry and logs nothing; hence every fingerprint in the cache has had its
\* scorers run exactly once, however often it was scored.
C1_CacheHitRunsNoScorer ==
    /\ [](/\ DOMAIN scorer_runs = DOMAIN consistency_cache
          /\ \A h \in DOMAIN scorer_runs : scorer_runs[h] = 1)
    /\ [][(IsCall /\ HashOfStep \in DOMAIN consistency_cache)
             => /\ scorer_runs' = scorer_runs
                /\ DOMAIN consistency_cache' = DOMAIN consistency_cache
                /\ scoring_history' = scoring_history]_vars

\* the same resume and job scored twice on one engine under the same weights: the second
\* call was a hit, and the one cache entry has had its scorers run once
C1_ScoredTwice ==
    /\ prev.valid /\ last.valid /\ last.same_engine /\ prev.same_engine
    /\ prev.resume = last.resume /\ prev.job = last.job /\ prev.weights = last.weights
    /\ prev.resume = MainResume
    /\ last.hit
    /\ Cardinality(DOMAIN consistency_cache) = 1
    /\ scorer_runs[last.result.consistency_hash] = 1

\* the numeric and derived parts of a ScoreResult, the scoring_timestamp left out
Outcome(result) ==
    << result.overall_score, result.category_scores, result.confidence_interval,
       result.consistency_hash, result.benchmark_comparison, result.recommendations >>

\* C2: two calls with the same resume, job requirements, weights and industry, on the same
\* engine or on fresh ones, at any two dates, return equal overall score, category scores,
\* confidence interval, fingerprint, benchmark comparison and recommendations.
C2_SameInputSameOutcome ==
    (/\ prev.valid /\ last.valid
     /\ prev.resume = last.resume /\ prev.job = last.job
     /\ prev.weights = last.weights /\ prev.industry = last.industry)
    => Outcome(prev.result) = Outcome(last.result)

\* C3: the result of a call with industry I carries the benchmark comparison for I: the
\* comparison of its score with I's benchmark table.
C3_BenchmarkOfIndustry ==
    last.valid
    => last.result.benchmark_comparison
          = _compare_with_benchmarks(last.result.benchmark_comparison.score, last.industry)

\* C4: on one engine, every step keeps every cache entry under its fingerprint with all its
\* fields unchanged, and a call whose fingerprint is in the cache returns the stored result.
C4_CacheEntriesKept ==
    [][(~ \E w \in ConstructorWeights : NewEngine(w))
          => /\ \A h \in DOMAIN consistency_cache :
                   h \in DOMAIN consistency_cache'
                   /\ consistency_cache'[h] = consistency_cache[h]
             /\ (IsCall /\ HashOfStep \in DOMAIN consistency_cache)
                   => last'.result = consistency_cache[HashOfStep]]_vars

\* a result stored in one year and under other weights than the engine has now is still in
\* the cache, next to a later entry, unchanged
C4_OldEntryKept ==
    /\ prev.valid /\ last.valid /\ prev.same_engine /\ last.same_engine
    /\ ~prev.hit /\ ~last.hit
    /\ prev.year < year
    /\ prev.weights # weights
    /\ Cardinality(DOMAIN consistency_cache) = 2
    /\ consistency_cache[prev.result.consistency_hash] = prev.result

\* C5: score_resume never computes an overall score with weights that do not sum to 1.0
\* within 0.001.
C5_WeightsValidatedBeforeScoring ==
    (last.valid /\ ~last.hit) => validate_weights(last.weights)

\* the same content: dicts with the same keys and, key by key, the same content; lists with
\* the same content item by item; equal strings
RECURSIVE SameContent(_, _)
SameContent(x, y) ==
    CASE IsDict(x) /\ IsDict(y) ->
            /\ {x.v[i][1] : i \in 1..Len(x.v)} = {y.v[i][1] : i \in 1..Len(y.v)}
            /\ \A i \in 1..Len(x.v) : \A k \in 1..Len(y.v) :
                  x.v[i][1] = y.v[k][1] => SameContent(x.v[i][2], y.v[k][2])
      [] IsList(x) /\ IsList(y) ->
            /\ Len(x.v) = Len(y.v)
            /\ \A i \in 1..Len(x.v) : SameContent(x.v[i], y.v[i])
      [] OTHER -> x = y

\* the job requirements of a call, {} when there are none
JobContent(job_requirements) ==
    IF IsNone(job_requirements) THEN EmptyDict ELSE job_requirements

\* C8: two calls under equal weights whose resumes and job requirements have the same keys
\* and values, in whatever insertion order, and with absent job requirements counting as
\* {}, get the same fingerprint, so the second is a cache hit on the same engine.
C8_FingerprintIgnoresKeyOrder ==
    (/\ prev.valid /\ last.valid
     /\ prev.weights = last.weights
     /\ SameContent(prev.resume, last.resume)
     /\ SameContent(JobContent(prev.job), JobContent(last.job)))
    => /\ prev.result.consistency_hash = last.result.consistency_hash
       /\ (prev.same_engine /\ last.same_engine) => last.hit

\* a resume scored without job requirements, then the same resume built in another key
\* order scored with job_requirements = {}: a cache hit
C8_ReorderedIsHit ==
    /\ prev.valid /\ last.valid /\ prev.same_engine /\ last.same_engine
    /\ prev.resume # last.resume
    /\ SameContent(prev.resume, last.resume)
    /\ IsNone(prev.job) /\ last.job = EmptyDict
    /\ last.hit

\* C16: every result a call returns was computed under the weights the engine has at that
\* call: its weights_used are those weights and its overall score is the rounded sum of its
\* category scores times those weights, also for a resume scored and cached earlier under
\* other weights.
C16_ResultUnderCurrentWeights ==
    last.valid
    => LET s == [i \in 1..5 |-> last.result.detailed_breakdown.category_analysis[i].score]
           w == last.weights
       IN  /\ last.result.detailed_breakdown.weights_used = w
           /\ last.result.overall_score
                 = Round2(QAdd(QAdd(QAdd(QAdd(QMul(s[1], w[1]), QMul(s[2], w[2])),
                                         QMul(s[3], w[3])), QMul(s[4], w[4])),
                               QMul(s[5], w[5])))

\* the same resume and job scored on one engine before and after the sliders replaced the
\* weights: the second call is no cache hit and its overall score differs
C16_RescoredUnderNewWeights ==
    /\ prev.valid /\ last.valid /\ prev.same_engine /\ last.same_engine
    /\ prev.resume = last.resume /\ prev.job = last.job
    /\ prev.weights = DefaultWeights /\ last.weights = OtherWeights
    /\ ~last.hit
    /\ prev.result.overall_score # last.result.overall_score

\* C18: on a single-threaded engine the scoring history has as many entries as the cache:
\* one per fingerprint scored, none for a cache hit; so get_scoring_statistics reports
\* total_scored = the number of distinct fingerprints scored and consistency_rate = 100.
C18_HistoryMatchesCache ==
    /\ Len(scoring_history) = Cardinality(DOMAIN consistency_cache)
    /\ {scoring_history[i].resume_hash : i \in 1..Len(scoring_history)}
          = DOMAIN consistency_cache
    /\ scoring_history # <<>>
          => /\ get_scoring_statistics.total_scored = Cardinality(DOMAIN scorer_runs)
             /\ get_scoring_statistics.consistency_rate = QInt(100)

\* two calls on one engine, the second a cache hit: one history entry, total_scored = 1
C18_HitNotLogged ==
    /\ prev.valid /\ last.valid /\ prev.same_engine /\ last.same_engine
    /\ ncalls = 2
    /\ last.hit
    /\ Len(scoring_history) = 1
    /\ get_scoring_statistics.total_scored = 1

-----------------------------------------------------------------------------
(* Properties of the scores (SpecScorers) *)

\* C6: under weights that pass validate_weights the overall score is within [0, 100].
C6_OverallScoreInRange ==
    (Returned /\ validate_weights(weights))
    => out.result.overall_score \in 0..10000

\* C7: each of the five category scorers returns a value within [0, 100].
C7_CategoryScoresInRange ==
    Returned
    => \A i \in 1..5 : /\ QLe(QInt(0), out.category_scores[i])
                       /\ QLe(out.category_scores[i], QInt(100))

\* a senior position whose bonuses and six matched preferred-experience phrases add up to
\* far more than 100 scores 100; so does a PhD with a GPA bonus at a university
C7_BonusesCapped ==
    /\ Returned
    /\ Get(inp.resume, "experience", EmptyList) = List(<<SeniorEntry>>)
    /\ JobHas(inp.job, "preferred_experience")
    /\ out.category_scores[2] = QInt(100)
    /\ out.category_scores[3] = QInt(100)

\* C10: with at least one resume skill and a non-empty required_skills, skills_match is
\* min(100, 100 * |R \cap Q| / |Q|) for the sets R and Q of lower-cased resume skills and
\* required skills.
C10_SkillsMatchOverSets ==
    (/\ Returned
     /\ AllResumeSkills(inp.resume) # <<>>
     /\ JobHas(inp.job, "required_skills"))
    => out.category_scores[1]
          = QMin(Q(100 * Cardinality(Range(AllResumeSkills(inp.resume))
                                     \cap Range(LowerList(inp.job, "required_skills"))),
                   Cardinality(Range(LowerList(inp.job, "required_skills")))),
                 QInt(100))

\* the sub-score of one experience entry, bonus by bonus
C11_Sub(exp, job_requirements, now_year) ==
    LET duration == _calculate_duration(Get(exp, "start_date", None),
                                        Get(exp, "end_date", None), now_year)
        title    == Lower(Get(exp, "title", EmptyStr).v)
        resp     == StrList(Get(exp, "responsibilities", EmptyList))
        ach      == StrList(Get(exp, "achievements", EmptyList))
        phrases  == IF JobHas(job_requirements, "preferred_experience")
                    THEN LowerList(job_requirements, "preferred_experience") ELSE <<>>
        text     == Lower(Get(exp, "title", EmptyStr).v \o " " \o JoinWith(resp, " "))
    IN  (IF QLe(QInt(3), duration) THEN 30 ELSE IF QLe(QInt(1), duration) THEN 20 ELSE 10)
        + (IF Len(resp) >= 5 THEN 25 ELSE IF Len(resp) >= 3 THEN 20 ELSE 10)
        + (IF Len(ach) > 0 THEN 25 ELSE 0)
        + (IF \E k \in 1..Len(ach) : HasDigit(ach[k]) THEN 15 ELSE 0)
        + (IF \E word \in {"senior", "lead", "manager", "director", "vp"} :
                 Contains(word, title) THEN 20 ELSE 0)
        + 10 * Cardinality({k \in 1..Len(phrases) : Contains(phrases[k], text)})

\* the weight of one experience entry
C11_Weight(exp) ==
    IF \E word \in {"senior", "lead", "manager", "director", "vp"} :
          Contains(word, Lower(Get(exp, "title", EmptyStr).v)) THEN Q(3, 2)
    ELSE IF \E word \in {"junior", "intern", "assistant"} :
               Contains(word, Lower(Get(exp, "title", EmptyStr).v)) THEN Q(4, 5)
    ELSE QInt(1)

RECURSIVE C11_Weighted(_, _, _)
\* the sum of sub_i * w_i over the entries
C11_Weighted(entries, job_requirements, now_year) ==
    IF entries = <<>> THEN QInt(0)
    ELSE QAdd(QMul(QInt(C11_Sub(entries[1], job_requirements, now_year)),
                   C11_Weight(entries[1])),
              C11_Weighted(Tail(entries), job_requirements, now_year))

RECURSIVE C11_Weights(_)
\* the sum of w_i over the entries
C11_Weights(entries) ==
    IF entries = <<>> THEN QInt(0) ELSE QAdd(C11_Weight(entries[1]), C11_Weights(Tail(entries)))

\* C11: with at least one experience entry, experience_relevance is the weighted average of
\* the entries' sub-scores (duration, responsibilities, achievement, quantified achievement,
\* seniority and preferred-experience bonuses; weight 1.5 for a senior title, 0.8 for a junior
\* one, else 1.0), capped at 100 after averaging; with no entry it is 0; the one senior
\* position held since 01/2018 with 5 responsibilities and a quantified achievement gives 100.
C11_ExperienceIsWeightedAverage ==
    Returned
    => LET entries == Items(Get(inp.resume, "experience", EmptyList))
       IN  /\ entries = <<>> => out.category_scores[2] = QInt(0)
           /\ entries # <<>>
                 => out.category_scores[2]
                       = QMin(QInt(100),
                              QDiv(C11_Weighted(entries, inp.job, year), C11_Weights(entries)))
           /\ entries = <<ScenarioEntry>> => out.category_scores[2] = QInt(100)

\* three positions of weights 1.5, 0.8 and 0.8 whose average stays below the cap, the senior
\* one alone being above it
C11_AverageOfThree ==
    /\ Returned
    /\ Get(inp.resume, "experience", EmptyList) = List(<<SeniorEntry, InternEntry, BackwardEntry>>)
    /\ C11_Sub(SeniorEntry, inp.job, year) > 100
    /\ QLt(out.category_scores[2], QInt(100))
    /\ out.category_scores[2] = QDiv(C11_Weighted(<<SeniorEntry, InternEntry, BackwardEntry>>,
                                                  inp.job, year), Q(31, 10))

\* C12: scoring the empty resume {} without job requirements returns a result whose
\* category scores are 0, 0, 40, 0, 0 and whose overall score is 40 times the education
\* weight: 6.0 under the default weights.
C12_EmptyResumeScores ==
    (out.valid /\ inp.resume = EmptyDict /\ IsNone(inp.job))
    => /\ ~out.raised
       /\ out.category_scores = <<QInt(0), QInt(0), QInt(40), QInt(0), QInt(0)>>
       /\ out.result.category_scores = <<0, 0, 4000, 0, 0>>
       /\ out.result.overall_score = Round2(QMul(QInt(40), weights[3]))
       /\ weights = DefaultWeights => out.result.overall_score = 600

\* the empty resume scored without job requirements under the default weights: 6.0
C12_EmptyResumeScored ==
    /\ Returned
    /\ inp.resume = EmptyDict /\ IsNone(inp.job)
    /\ weights = DefaultWeights
    /\ out.result.overall_score = 600

\* the number of entries over the list-valued skill categories of a resume
C13_SkillCount(resume_data) ==
    LET skills == Get(resume_data, "skills", EmptyDict)
    IN  Cardinality(UNION {{<<i, k>> : k \in 1..Len(Items(skills.v[i][2]))} :
                              i \in 1..Len(skills.v)})

\* C13: without required skills (job requirements absent, or without required_skills, or
\* with an empty list of them) skills_match is given by the number n of skills alone:
\* 95 from 15, 85 from 10, 75 from 7, 65 from 5, 50 from 3, 30 for 1 or 2; with no skill it
\* is 0 with or without required skills; 16 skills without job requirements give 95.
C13_SkillLadderByCount ==
    Returned
    => LET n == C13_SkillCount(inp.resume)
       IN  /\ n = 0 => out.category_scores[1] = QInt(0)
           /\ (n > 0 /\ ~JobHas(inp.job, "required_skills"))
                 => out.category_scores[1]
                       = QInt(CASE n >= 15 -> 95
                                [] n >= 10 /\ n < 15 -> 85
                                [] n >= 7 /\ n < 10 -> 75
                                [] n >= 5 /\ n < 7 -> 65
                                [] n >= 3 /\ n < 5 -> 50
                                [] n >= 1 /\ n < 3 -> 30)
           /\ (n = 16 /\ IsNone(inp.job)) => out.result.category_scores[1] = 9500

\* sixteen skills in two categories, scored without job requirements: 95.0
C13_SixteenSkills ==
    /\ Returned
    /\ IsNone(inp.job)
    /\ Get(inp.resume, "skills", EmptyDict) = SkillsOf(16)
    /\ C13_SkillCount(inp.resume) = 16
    /\ out.result.category_scores[1] = 9500

\* C17: score_resume returns a ScoreResult for every resume whose optional fields are
\* missing, empty, null or malformed; it never raises.
C17_NeverRaises == out.valid => ~out.raised

\* C19: the benchmark comparison of a result is that of its reported overall score: its
\* score is the rounded overall_score, and its level and percentile are those of the
\* thresholds applied to that rounded score.
C19_BenchmarkOfReportedScore ==
    Returned
    => /\ out.result.benchmark_comparison.score = Q(out.result.overall_score, 100)
       /\ out.result.benchmark_comparison
             = _compare_with_benchmarks(Q(out.result.overall_score, 100), "general")

\* C20: the confidence interval lies around the overall score within the scale,
\* 0 <= lower <= overall_score <= upper <= 100, and closes on the overall score when the
\* five category scores are equal.
C20_IntervalAroundOverall ==
    Returned
    => LET lower == out.result.confidence_interval[1]
           upper == out.result.confidence_interval[2]
       IN  /\ 0 <= lower /\ lower <= out.result.overall_score
           /\ out.result.overall_score <= upper /\ upper <= 10000
           /\ (\A i \in 2..5 : out.category_scores[i] = out.category_scores[1])
                 => (lower = out.result.overall_score /\ upper = out.result.overall_score)

RECURSIVE C21_Strings(_)
\* the string values found in a value, at any depth of maps and lists
C21_Strings(x) ==
    CASE IsStr(x)  -> {x.v}
      [] IsList(x) -> UNION {C21_Strings(x.v[i]) : i \in 1..Len(x.v)}
      [] IsDict(x) -> UNION {C21_Strings(x.v[i][2]) : i \in 1..Len(x.v)}
      [] OTHER     -> {}

\* the string values of a resume outside its top-level metadata section
C21_ResumeStrings(resume_data) ==
    UNION {C21_Strings(resume_data.v[i][2]) :
              i \in {k \in 1..Len(resume_data.v) : resume_data.v[k][1] # "metadata"}}

\* a resume without its top-level metadata section
C21_WithoutMetadata(resume_data) ==
    Dict(Selected(resume_data.v,
                  [i \in 1..Len(resume_data.v) |-> resume_data.v[i][1] # "metadata"]))

\* C21: the text searched for keywords holds every string value of the resume, at any depth
\* of maps and lists, except those under the top-level metadata section: a target keyword
\* that occurs in such a string occurs in the text, and the keyword score is the one of the
\* resume without its metadata.
C21_TextHoldsEveryString ==
    Returned
    => LET all_text == Lower(_extract_all_text(inp.resume))
       IN  /\ \A s \in C21_ResumeStrings(inp.resume) : Contains(Lower(s), all_text)
           /\ \A k \in Range(TargetKeywords(inp.job)) :
                 (\E s \in C21_ResumeStrings(inp.resume) : Contains(k, Lower(s)))
                    => Contains(k, all_text)
           /\ out.category_scores[5]
                 = _score_keyword_optimization(C21_WithoutMetadata(inp.resume), inp.job)

\* the targets of the keyword search as a set
C22_Targets(job_requirements) ==
    LET given == (IF JobHas(job_requirements, "keywords")
                  THEN Range(LowerList(job_requirements, "keywords")) ELSE {})
                 \cup (IF JobHas(job_requirements, "required_skills")
                       THEN Range(LowerList(job_requirements, "required_skills")) ELSE {})
    IN  IF given = {} THEN Range(GeneralKeywords) ELSE given

\* C22: keyword_optimization is min(100, 100 * matched / total) over the set of targets (the
\* case-folded keywords and required skills of the job requirements, or the general list when
\* there are none), matched being the targets that occur in the lower-cased text; an empty
\* text scores 0 and a text that holds every target scores 100.
C22_KeywordScoreOverSet ==
    Returned
    => LET all_text == Lower(_extract_all_text(inp.resume))
           targets  == C22_Targets(inp.job)
           matched  == {k \in targets : Contains(k, all_text)}
       IN  out.category_scores[5]
              = IF all_text = "" THEN QInt(0)
                ELSE QMin(QInt(100), Q(100 * Cardinality(matched), Cardinality(targets)))

\* the score of one education entry: degree level, institution, GPA and field bonuses
C23_Entry(edu, job_requirements) ==
    LET degree      == Lower(Get(edu, "degree", EmptyStr).v)
        institution == Lower(Get(edu, "institution", EmptyStr).v)
        gpa         == PyFloat(StrOf(Get(edu, "gpa", None)))
        fields      == IF JobHas(job_requirements, "preferred_education")
                       THEN Range(LowerList(job_requirements, "preferred_education")) ELSE {}
    IN  (CASE \E w \in {"phd", "doctorate"} : Contains(w, degree)       -> 100
           [] /\ \A w \in {"phd", "doctorate"} : ~Contains(w, degree)
              /\ \E w \in {"master", "mba"} : Contains(w, degree)        -> 85
           [] /\ \A w \in {"phd", "doctorate", "master", "mba"} : ~Contains(w, degree)
              /\ Contains("bachelor", degree)                            -> 75
           [] /\ \A w \in {"phd", "doctorate", "master", "mba", "bachelor"} :
                    ~Contains(w, degree)
              /\ Contains("associate", degree)                           -> 60
           [] /\ \A w \in {"phd", "doctorate", "master", "mba", "bachelor", "associate"} :
                    ~Contains(w, degree)
              /\ \E w \in {"certificate", "diploma"} : Contains(w, degree) -> 50
           [] OTHER                                                       -> 40)
        + (IF \E w \in {"university", "college", "institute"} : Contains(w, institution)
           THEN 10 ELSE 0)
        + (CASE gpa.ok /\ QLe(Q(37, 10), gpa.v)                            -> 15
             [] gpa.ok /\ QLe(Q(33, 10), gpa.v) /\ QLt(gpa.v, Q(37, 10))   -> 10
             [] gpa.ok /\ QLe(QInt(3), gpa.v) /\ QLt(gpa.v, Q(33, 10))     -> 5
             [] OTHER                                                      -> 0)
        + (IF \E f \in fields : Contains(f, degree) THEN 20 ELSE 0)

\* C23: education_alignment is 40 for a resume without education entries and otherwise the
\* highest entry score (degree level + institution + GPA + preferred-field bonuses), capped
\* at 100; it is never below 40 and is the same for the entries in reverse order.
C23_EducationIsBestEntry ==
    Returned
    => LET education == Items(Get(inp.resume, "education", EmptyList))
           score     == out.category_scores[3]
       IN  /\ education = <<>> => score = QInt(40)
           /\ education # <<>>
                 => /\ \E i \in 1..Len(education) :
                          score = QMin(QInt(100), QInt(C23_Entry(education[i], inp.job)))
                    /\ \A i \in 1..Len(education) :
                          QLe(QMin(QInt(100), QInt(C23_Entry(education[i], inp.job))), score)
           /\ QLe(QInt(40), score)
           /\ score = _score_education_alignment(
                         WithSection(inp.resume, "education",
                                     List([i \in 1..Len(education) |->
                                             education[Len(education) + 1 - i]])),
                         inp.job)

\* two entries, the second the better one: 50 + 10 + 15 + 20 = 95 against a job that prefers
\* physics
C23_SecondEntryIsBest ==
    /\ Returned
    /\ Len(Items(Get(inp.resume, "education", EmptyList))) = 2
    /\ JobHas(inp.job, "preferred_education")
    /\ C23_Entry(Get(inp.resume, "education", EmptyList).v[1], inp.job) = 65
    /\ out.category_scores[3] = QInt(95)
    /\ out.result.category_scores[3] = 9500

\* the four counts the format score is made of: sections present and non-empty, personal
\* fields given, experience entries in all and complete, non-empty skill categories
C24_Parts(resume_data) ==
    LET personal_info == Get(resume_data, "personal_info", EmptyDict)
        experience    == Items(Get(resume_data, "experience", EmptyList))
        skills        == Get(resume_data, "skills", EmptyDict)
    IN  [sections   |-> Cardinality({s \in {"personal_info", "experience", "education", "skills"} :
                                       Truthy(Get(resume_data, s, None))}),
         personal   |-> Cardinality({f \in {"name", "email", "phone"} :
                                       /\ Truthy(Get(personal_info, f, None))
                                       /\ Get(personal_info, f, None) # Str("Not specified")}),
         entries    |-> Len(experience),
         complete   |-> Cardinality({i \in 1..Len(experience) :
                                       /\ Truthy(Get(experience[i], "title", None))
                                       /\ Truthy(Get(experience[i], "company", None))
                                       /\ Truthy(Get(experience[i], "start_date", None))}),
         categories |-> Cardinality({i \in 1..Len(skills.v) : Truthy(skills.v[i][2])})]

\* C24: format_structure is 40 * (sections present) / 4 + 20 * (personal fields given) / 3
\* + 20 * (complete experience entries) / (entries), 0 without entries, + 20, 15 or 10 for
\* three or more, two or one non-empty skill categories; it is 100 exactly when the four parts
\* are at their maximum.
C24_FormatIsSumOfParts ==
    Returned
    => LET p     == C24_Parts(inp.resume)
           score == out.category_scores[4]
       IN  /\ score = QAdd(QAdd(Q(40 * p.sections, 4), Q(20 * p.personal, 3)),
                           QAdd(IF p.entries = 0 THEN QInt(0)
                                ELSE Q(20 * p.complete, p.entries),
                                QInt(CASE p.categories >= 3 -> 20
                                       [] p.categories = 2  -> 15
                                       [] p.categories = 1  -> 10
                                       [] OTHER             -> 0)))
           /\ score = QInt(100)
                 <=> /\ p.sections = 4 /\ p.personal = 3
                     /\ p.entries > 0 /\ p.complete = p.entries
                     /\ p.categories >= 3

\* three experience entries of which one is complete, the other parts at their maximum:
\* 40 + 20 + 20 / 3 + 20 = 86.67
C24_OneEntryOfThreeComplete ==
    /\ Returned
    /\ C24_Parts(inp.resume).entries = 3
    /\ C24_Parts(inp.resume).complete = 1
    /\ out.category_scores[4] = Q(260, 3)
    /\ out.result.category_scores[4] = 8667

\* C26: missing_elements holds the LinkedIn item iff the resume gives no LinkedIn URL (none,
\* an empty one or the placeholder of the fallback parser), the certifications item iff it
\* lists no certifications, and the quantified-achievements item iff no achievement of any
\* experience entry holds a digit, a resume without experience entries included.
C26_MissingElements ==
    Returned
    => LET missing    == Range(out.result.detailed_breakdown.missing_elements)
           linkedin   == Get(Get(inp.resume, "personal_info", EmptyDict), "linkedin", None)
           experience == Items(Get(inp.resume, "experience", EmptyList))
           quantified == {<<i, k>> \in (1..Len(experience)) \X (1..6) :
                             /\ k <= Len(Items(Get(experience[i], "achievements", EmptyList)))
                             /\ HasDigit(Get(experience[i], "achievements", EmptyList).v[k].v)}
       IN  /\ "LinkedIn profile URL" \in missing
                 <=> (~Truthy(linkedin) \/ linkedin = Str("Not specified"))
           /\ "Professional certifications" \in missing
                 <=> ~Truthy(Get(Get(inp.resume, "skills", EmptyDict), "certifications", None))
           /\ "Quantified achievements with numbers/percentages" \in missing
                 <=> quantified = {}

\* the orders the entries of a list section of a resume can be put in
C27_Permuted(resume_data, section) ==
    LET entries == Items(Get(resume_data, section, EmptyList))
        n       == Len(entries)
    IN  {WithSection(resume_data, section, List([i \in 1..n |-> entries[f[i]]])) :
            f \in {g \in [1..n -> 1..n] : \A i, j \in 1..n : g[i] = g[j] => i = j}}

\* C27: the scores do not depend on the order of the experience entries or of the education
\* entries: a resume with either list permuted has the same experience_relevance,
\* education_alignment and format_structure and the same overall score.
C27_OrderIndependent ==
    Returned
    => \A r \in C27_Permuted(inp.resume, "experience")
                   \cup C27_Permuted(inp.resume, "education") :
          LET scores == CategoryScores(r, inp.job, year)
          IN  /\ scores[2] = out.category_scores[2]
              /\ scores[3] = out.category_scores[3]
              /\ scores[4] = out.category_scores[4]
              /\ Round2(WeightedSum(scores, weights)) = out.result.overall_score

-----------------------------------------------------------------------------
(* Properties of the benchmark comparison and of the recommendations (SpecFunctions) *)

\* the benchmark table as <<average, top>>, an industry that is not listed getting the
\* "general" row
C14_Table(industry) ==
    CASE industry = "technology" -> <<75, 90>>
      [] industry = "healthcare" -> <<70, 85>>
      [] industry = "finance"    -> <<78, 92>>
      [] industry = "marketing"  -> <<72, 87>>
      [] industry = "general"    -> <<70, 85>>
      [] OTHER                   -> <<70, 85>>

\* C14: the comparison of a score with an industry's benchmarks carries exactly one level:
\* "Top 10%"/95 from the top percentile, else "Above Average"/75 from average + 10, else
\* "Average"/50 from the average, else "Below Average"/25 from average - 10, else "Needs
\* Significant Improvement"/10, with the thresholds of the industry's row of the table and
\* those of "general" (70, 85) for an industry that is not in it.
C14_OneLevelPerScore ==
    (out.valid /\ inp.kind = "benchmark")
    => LET b   == out.benchmark_comparison
           s   == inp.score
           avg == C14_Table(inp.industry)[1]
           top == C14_Table(inp.industry)[2]
           got == <<b.performance_level, b.percentile_estimate>>
       IN  /\ b.industry = inp.industry /\ b.score = s
           /\ b.industry_average = avg /\ b.top_percentile_threshold = top
           /\ got = <<"Top 10%", 95>> <=> QLe(QInt(top), s)
           /\ got = <<"Above Average", 75>> <=> (QLt(s, QInt(top)) /\ QLe(QInt(avg + 10), s))
           /\ got = <<"Average", 50>> <=> (QLt(s, QInt(avg + 10)) /\ QLe(QInt(avg), s))
           /\ got = <<"Below Average", 25>> <=> (QLt(s, QInt(avg)) /\ QLe(QInt(avg - 10), s))
           /\ got = <<"Needs Significant Improvement", 10>> <=> QLt(s, QInt(avg - 10))
           /\ got \in {<<"Top 10%", 95>>, <<"Above Average", 75>>, <<"Average", 50>>,
                       <<"Below Average", 25>>, <<"Needs Significant Improvement", 10>>}

\* 80 in an industry that is not in the table is "Above Average" by the "general" row,
\* where the "technology" row would make it "Average"
C14_UnknownIndustry ==
    /\ out.valid /\ inp.kind = "benchmark"
    /\ inp.industry = "retail" /\ inp.score = QInt(80)
    /\ out.benchmark_comparison.industry_average = 70
    /\ out.benchmark_comparison.performance_level = "Above Average"
    /\ out.benchmark_comparison.percentile_estimate = 75

\* the messages of the rules, in the order of the rules
C15_Messages ==
    << "Add more relevant technical skills matching job requirements",
       "Include more quantified achievements in work experience",
       "Add action verbs and specific accomplishments",
       "Consider adding relevant certifications or training",
       "Improve resume formatting and organization",
       "Ensure all sections are complete and well-structured",
       "Include more industry-relevant keywords",
       "Optimize for ATS keyword scanning",
       "Consider professional resume review and rewriting" >>

\* message by message, whether its rule fires on the category scores s
C15_Fires(s) ==
    LET mean == QDiv(QAdd(QAdd(QAdd(QAdd(s[1], s[2]), s[3]), s[4]), s[5]), QInt(5))
    IN  << QLt(s[1], QInt(70)),
           QLt(s[2], QInt(70)), QLt(s[2], QInt(70)),
           QLt(s[3], QInt(60)),
           QLt(s[4], QInt(70)), QLt(s[4], QInt(70)),
           QLt(s[5], QInt(70)), QLt(s[5], QInt(70)),
           QLt(mean, QInt(60)) >>

\* C15: the recommendations are the messages of the rules that fire, in the order of the
\* rules (skills < 70, experience < 70 twice, education < 60, format < 70 twice, keywords
\* < 70 twice, mean of the five < 60 last): the j-th recommendation is the message of the
\* j-th firing rule, there are as many as firing rules, and none iff none fires.
C15_RecommendationsInRuleOrder ==
    (out.valid /\ inp.kind = "scores")
    => LET fires == C15_Fires(inp.category_scores)
           recs  == out.recommendations
           rank(i) == Cardinality({m \in 1..i : fires[m]})
       IN  /\ Len(recs) = rank(9)
           /\ \A j \in 1..Len(recs) :
                 \E i \in 1..9 : fires[i] /\ rank(i) = j /\ recs[j] = C15_Messages[i]
           /\ recs = <<>> <=> \A i \in 1..9 : ~fires[i]
           /\ fires[9] => recs[Len(recs)] = C15_Messages[9]

\* only the keyword rule and the rule on the mean fire: three messages, the rewrite last
C15_KeywordsAndRewrite ==
    /\ out.valid /\ inp.kind = "scores"
    /\ inp.category_scores = <<QInt(70), QInt(70), QInt(60), QInt(70), QInt(0)>>
    /\ out.recommendations = <<C15_Messages[7], C15_Messages[8], C15_Messages[9]>>

\* how often a category is listed in a list of strengths or weaknesses
C25_Listed(entries, category) ==
    Cardinality({j \in 1..Len(entries) : entries[j].category = category})

\* C25: in the breakdown every category has one level (Excellent from 90, Good from 75,
\* Fair from 60, Needs Improvement below); it is listed once in strengths iff its score is
\* at least 90 and once in weaknesses iff its score is below 75, and otherwise in neither;
\* no category is in both lists.
C25_LevelsAndLists ==
    (out.valid /\ inp.kind = "breakdown")
    => \A i \in 1..5 :
          LET score     == inp.category_scores[i]
              breakdown == out.detailed_breakdown
          IN  /\ breakdown.category_analysis[i].score = score
              /\ breakdown.category_analysis[i].level
                    = CASE QLe(QInt(90), score)                           -> "Excellent"
                        [] QLe(QInt(75), score) /\ QLt(score, QInt(90))   -> "Good"
                        [] QLe(QInt(60), score) /\ QLt(score, QInt(75))   -> "Fair"
                        [] QLt(score, QInt(60))                           -> "Needs Improvement"
              /\ C25_Listed(breakdown.strengths, Categories[i])
                    = IF QLe(QInt(90), score) THEN 1 ELSE 0
              /\ C25_Listed(breakdown.weaknesses, Categories[i])
                    = IF QLt(score, QInt(75)) THEN 1 ELSE 0
              /\ ~(/\ C25_Listed(breakdown.strengths, Categories[i]) > 0
                   /\ C25_Listed(breakdown.weaknesses, Categories[i]) > 0)

\* scores 90, 89.99, 75, 74.99 and 59.99: one strength, two categories in neither list, two
\* weaknesses
C25_OneOfEachLevel ==
    /\ out.valid /\ inp.kind = "breakdown"
    /\ inp.category_scores = <<QInt(90), Q(8999, 100), QInt(75), Q(7499, 100), Q(5999, 100)>>
    /\ Len(out.detailed_breakdown.strengths) = 1
    /\ out.detailed_breakdown.strengths[1].category = "skills_match"
    /\ Len(out.detailed_breakdown.weaknesses) = 2
    /\ out.detailed_breakdown.weaknesses[1].category = "format_structure"
    /\ out.detailed_breakdown.weaknesses[2].category = "keyword_optimization"

\* the position of the entry a skill has in the items of matches, 0 when it is absent
C28_Chosen(matches, skill) ==
    IF \E m \in 1..Len(matches) : matches[m][1] = skill
    THEN matches[CHOOSE m \in 1..Len(matches) : matches[m][1] = skill][2]
    ELSE 0

\* C28: find_skill_matches resolves a skill by an exact case-insensitive key match, else by
\* an alias match against any entry of the taxonomy, else by a substring match in either
\* direction with a key; a substring match is used only when no entry matches by alias, and
\* a skill that matches nothing is absent from the result.
C28_ExactThenAliasThenSubstring ==
    (out.valid /\ inp.kind = "skills")
    => \A s \in 1..Len(inp.skills) :
          LET skill_lower == Lower(inp.skills[s])
              entries     == 1..Len(inp.taxonomy)
              exact       == {i \in entries : inp.taxonomy[i].key = skill_lower}
              alias       == {i \in entries :
                                 \E k \in 1..Len(inp.taxonomy[i].aliases) :
                                    Lower(inp.taxonomy[i].aliases[k]) = skill_lower}
              substring   == {i \in entries :
                                 \/ Contains(skill_lower, inp.taxonomy[i].key)
                                 \/ Contains(inp.taxonomy[i].key, skill_lower)}
              chosen      == C28_Chosen(out.matches, inp.skills[s])
          IN  /\ exact # {} => chosen \in exact
              /\ (exact = {} /\ alias # {}) => chosen \in alias
              /\ (exact = {} /\ alias = {} /\ substring # {}) => chosen \in substring
              /\ (exact = {} /\ alias = {} /\ substring = {}) => chosen = 0

\* C29: analyze_skill_gaps reports as missing exactly the job-required skills without a
\* resume counterpart: a job skill is in missing_skills, and in category_gaps, iff the resume
\* holds no skill that is the same in lower case or resolves to the same taxonomy entry.
C29_MissingAreSkillsNotHeld ==
    (out.valid /\ inp.kind = "gaps")
    => \A j \in 1..Len(inp.job_requirements) :
          LET job_skill == inp.job_requirements[j]
              held      == \E r \in 1..Len(inp.resume_skills) :
                              \/ Lower(inp.resume_skills[r]) = Lower(job_skill)
                              \/ /\ MatchOf(inp.taxonomy, job_skill) # 0
                                 /\ MatchOf(inp.taxonomy, inp.resume_skills[r])
                                       = MatchOf(inp.taxonomy, job_skill)
              gaps      == out.gap_analysis.category_gaps
          IN  /\ job_skill \in Range(out.gap_analysis.missing_skills) <=> ~held
              /\ job_skill \in Range(out.gap_analysis.missing_skills)
                    <=> \E c \in 1..Len(gaps) : job_skill \in Range(gaps[c][2])

-----------------------------------------------------------------------------
(* Properties of generate_improvements (SpecImprove) *)

\* C30: generate_improvements changes none of its arguments and appends one entry to
\* recommendation_history: after n calls the history holds n entries in call order, the
\* latest being the entry of the latest call, and two calls with the same arguments return
\* the same recommendations apart from the generation timestamp.
C30_AppendOnlyAndRepeatable ==
    /\ Len(recommendation_history) = ncalls
    /\ last.valid
          => /\ last.resume_after = last.resume
             /\ last.scoring_result_after = last.scoring_result
             /\ last.job_after = last.job
             /\ recommendation_history[ncalls].timestamp = last.year
             /\ recommendation_history[ncalls].initial_score = last.scoring_result.overall_score
    /\ (prev.valid /\ last.valid)
          => /\ recommendation_history[ncalls - 1].timestamp = prev.year
             /\ (/\ prev.resume = last.resume
                 /\ prev.scoring_result = last.scoring_result
                 /\ prev.job = last.job)
                   => [last.recommendations EXCEPT !.metadata.generation_timestamp = 0]
                         = [prev.recommendations EXCEPT !.metadata.generation_timestamp = 0]

-----------------------------------------------------------------------------
(* Properties of concurrent calls (SpecConc) *)

\* C9: when two threads have made the same call at once, the scorers ran at most once for
\* its fingerprint, both hold identical results, and the cache and the scoring history hold
\* one entry each for it.
C9_ConcurrentCallsScoreOnce ==
    \A t, u \in Threads :
       (/\ t # u
        /\ threads[t].pc = "done" /\ threads[u].pc = "done"
        /\ threads[t].resume = threads[u].resume
        /\ threads[t].job = threads[u].job
        /\ threads[t].industry = threads[u].industry)
       => /\ scorer_runs[threads[t].consistency_hash] <= 1
          /\ threads[t].result = threads[u].result
          /\ Cardinality(DOMAIN consistency_cache) = 1
          /\ Len(scoring_history) = 1

====
